---- MODULE Spec2Model ----
(***************************************************************************)
(* A model of the telegram-router package (src/router.go).                 *)
(*                                                                         *)
(* Part I  : the ingestion pipeline ListenWithContext: one producer        *)
(*           goroutine, a bounded channel `jobs`, a pool of worker         *)
(*           goroutines, the caller's goroutine that closes the queue and  *)
(*           waits, and the environment (the cancellation context, the     *)
(*           Bot API update channel and the runtime timers).               *)
(* Part II : the dispatcher HandleUpdate with Context.Next / Abort and the *)
(*           registration store and its composed tables.                   *)
(***************************************************************************)
EXTENDS Integers, Sequences, FiniteSets, TLC

\* ------------------------------------------------------------------ bounds
\* Largest `workers` argument of ListenWithContext that is explored.
MaxWorkers == 2
\* Largest `queueSize` argument of ListenWithContext that is explored.
MaxQueue == 1
\* Number of updates the Bot API source has to deliver in one run.
MaxUpdates == 2
\* Largest number of handler functions registered on the router.
MaxHandlers == 3
\* Number of registration calls made by goroutines of their own.
MaxRegistrations == 2
\* Number of HandleUpdate calls made by goroutines of their own.
MaxDispatches == 2

\* --------------------------------------------------------------- constants
\* `workers = 8` when the argument is <= 0.
DefaultWorkers == 8
\* const defaultQueueSize = 1024
defaultQueueSize == 1024

VARIABLES
    \* ---- ListenWithContext: arguments and the caller's goroutine
    mainPc,       \* "idle" | "wait_produce" | "wg_wait" | "returned"
    workers,      \* the normalised number of workers
    queueSize,    \* the normalised capacity of jobs
    \* ---- the cancellation context handed in by the caller
    ctxDone,      \* ctx.Done() is closed
    \* ---- the Bot API source (r.Bot.GetUpdatesChan / StopReceivingUpdates)
    nextId,       \* the UpdateID of the next update the source delivers
    updates,      \* the updates channel: delivered, not yet received
    srcClosed,    \* the updates channel is closed
    srcStopped,   \* number of calls of r.Bot.StopReceivingUpdates()
    \* ---- the queue
    jobs,         \* content of the buffered channel jobs
    jobsClosed,   \* number of times close(jobs) ran
    \* ---- the producer goroutine
    prodPc,       \* "idle" | "select" | "enqueue" | "drain" | "drain_enqueue" | "exited"
    pu,           \* the update the producer holds (0: none)
    drainDone,    \* drainCtx.Done() is closed (the 5 s drain budget is spent)
    prodExit,     \* the return statement the producer left by ("none" while it runs)
    \* ---- the worker goroutines
    wpc,          \* per worker: "idle" | "recv" | "handling" | "exited"
    cur,          \* per worker: the update it is dispatching (0: none)
    stalls,       \* the updates whose handler never returns
    \* ---- history (what the run did; not read by the program)
    nDispatch,    \* per update: how often HandleUpdate was called with it
    completed,    \* the updates whose HandleUpdate returned
    enqueued,     \* the updates that were sent on jobs
    dropLog,      \* one record per update the producer gave up
    cancelBeforeExit, \* ctx was cancelled before the producer exited
    queuedAtCancel, \* the updates that were in jobs when ctx was cancelled
    phaseLog,     \* the phases of the pipeline entered so far, in order
    \* ---- the router and the latest HandleUpdate call
    router,       \* the TelegramRouter: registered and composed handlers
    nReg,         \* number of handler functions passed to registrations
    lastU,        \* the update of the latest HandleUpdate call
    lastC,        \* the Context that call built, as the call left it
    prevC,        \* the Context of the call before it, where that is recorded
    \* ---- handler faults
    panics,       \* the updates whose dispatch panics with nothing to recover it
    crashed,      \* the process was ended by a panic that reached the runtime
    \* ---- the composed tables under concurrent registration and dispatch
    mu,           \* t.mu is held for writing
    composedDirty, \* t.composedDirty
    handlersRaw,  \* per table: the registrations appended to it, in order
    handlersC,    \* per table: the registrations in its composed copy
    reg,          \* per registering goroutine: its position and its table
    disp,         \* per dispatching goroutine: its position and its locals
    returned      \* the registration calls that have returned

listenVars == <<mainPc, workers, queueSize, ctxDone, nextId, updates,
                srcClosed, srcStopped, jobs, jobsClosed, prodPc, pu, drainDone,
                prodExit, wpc, cur, stalls, nDispatch, completed,
                enqueued, dropLog, cancelBeforeExit, queuedAtCancel, phaseLog>>

callVars == <<router, nReg, lastU, lastC, prevC>>

composeVars == <<mu, composedDirty, handlersRaw, handlersC, reg, disp, returned>>

dispatchVars == <<callVars, composeVars>>

faultVars == <<panics, crashed>>

vars == <<listenVars, dispatchVars, faultVars>>

Workers == 1..MaxWorkers
Ids == 1..MaxUpdates

\* ------------------------------------------------- ListenWithContext: start

\* if workers <= 0 { workers = 8 }
NormWorkers(n) == IF n <= 0 THEN DefaultWorkers ELSE n

\* if queueSize <= 0 { queueSize = defaultQueueSize }
NormQueueSize(q) == IF q <= 0 THEN defaultQueueSize ELSE q

Active(w) == w <= workers

InitListen ==
    /\ mainPc = "idle"
    /\ workers = 0
    /\ queueSize = 0
    /\ ctxDone = FALSE
    /\ nextId = 1
    /\ updates = <<>>
    /\ srcClosed = FALSE
    /\ srcStopped = 0
    /\ jobs = <<>>
    /\ jobsClosed = 0
    /\ prodPc = "idle"
    /\ pu = 0
    /\ drainDone = FALSE
    /\ prodExit = "none"
    /\ wpc = [w \in Workers |-> "idle"]
    /\ cur = [w \in Workers |-> 0]
    /\ stalls \in {{}} \cup {{u} : u \in Ids}
    /\ nDispatch = [u \in Ids |-> 0]
    /\ completed = {}
    /\ enqueued = {}
    /\ dropLog = {}
    /\ cancelBeforeExit = FALSE
    /\ queuedAtCancel = {}
    /\ phaseLog = <<"Idle">>

\* ListenWithContext up to the point where it blocks on <-produceDone: the
\* arguments are normalised, the source channel is obtained, jobs is made and
\* the workers and the producer are started.
ListenStart(nw, qs) ==
    /\ mainPc = "idle"
    /\ workers' = NormWorkers(nw)
    /\ queueSize' = NormQueueSize(qs)
    /\ wpc' = [w \in Workers |-> IF w <= NormWorkers(nw) THEN "recv" ELSE "idle"]
    /\ prodPc' = "select"
    /\ mainPc' = "wait_produce"
    /\ phaseLog' = Append(phaseLog, "Running")
    /\ UNCHANGED <<dispatchVars, faultVars, ctxDone, nextId, updates, srcClosed, srcStopped, jobs,
                   jobsClosed, pu, drainDone, prodExit, cur, stalls, nDispatch,
                   completed, enqueued, dropLog, cancelBeforeExit,
                   queuedAtCancel>>

\* ------------------------------------------------------------ environment

\* The caller cancels ctx.
Cancel ==
    /\ ~ctxDone
    /\ ctxDone' = TRUE
    /\ queuedAtCancel' = {jobs[i] : i \in 1..Len(jobs)}
    /\ UNCHANGED <<dispatchVars, faultVars, mainPc, workers, queueSize, nextId, updates, srcClosed,
                   srcStopped, jobs, jobsClosed, prodPc, pu, drainDone, prodExit,
                   wpc, cur, stalls, nDispatch, completed, enqueued,
                   dropLog, cancelBeforeExit, phaseLog>>

\* The Bot API client puts the next update on the updates channel.  It may
\* do so after StopReceivingUpdates too (a batch already fetched).
SourceDeliver ==
    /\ mainPc # "idle"
    /\ ~srcClosed
    /\ nextId <= MaxUpdates
    /\ updates' = Append(updates, nextId)
    /\ nextId' = nextId + 1
    /\ UNCHANGED <<dispatchVars, faultVars, mainPc, workers, queueSize, ctxDone, srcClosed,
                   srcStopped, jobs, jobsClosed, prodPc, pu, drainDone, prodExit,
                   wpc, cur, stalls, nDispatch, completed, enqueued,
                   dropLog, cancelBeforeExit, queuedAtCancel, phaseLog>>

\* The Bot API client closes the updates channel: after it was told to stop,
\* or when the stream of this run has ended.
SourceClose ==
    /\ mainPc # "idle"
    /\ ~srcClosed
    /\ srcStopped > 0 \/ nextId > MaxUpdates
    /\ srcClosed' = TRUE
    /\ UNCHANGED <<dispatchVars, faultVars, mainPc, workers, queueSize, ctxDone, nextId, updates,
                   srcStopped, jobs, jobsClosed, prodPc, pu, drainDone, prodExit,
                   wpc, cur, stalls, nDispatch, completed, enqueued,
                   dropLog, cancelBeforeExit, queuedAtCancel, phaseLog>>

\* context.WithTimeout(context.Background(), 5*time.Second) expires.
DrainCtxExpire ==
    /\ prodPc \in {"drain", "drain_enqueue"}
    /\ ~drainDone
    /\ drainDone' = TRUE
    /\ UNCHANGED <<dispatchVars, faultVars, mainPc, workers, queueSize, ctxDone, nextId, updates,
                   srcClosed, srcStopped, jobs, jobsClosed, prodPc, pu, prodExit,
                   wpc, cur, stalls, nDispatch, completed, enqueued,
                   dropLog, cancelBeforeExit, queuedAtCancel, phaseLog>>

\* ---------------------------------------------------------------- producer

\* defer close(produceDone): every return of the producer.
ProducerReturn(how) ==
    /\ prodPc' = "exited"
    /\ prodExit' = how
    /\ cancelBeforeExit' = ctxDone

\* A drop of update u: what ended the attempt and whether jobs was full then.
Drop(u, why) == [id |-> u, cause |-> why, full |-> Len(jobs) >= queueSize]

\* outer select, case <-ctx.Done(): stop the source, open the drain budget.
ProducerCancelled ==
    /\ prodPc = "select"
    /\ ctxDone
    /\ srcStopped' = srcStopped + 1
    /\ prodPc' = "drain"
    /\ phaseLog' = Append(phaseLog, "Draining")
    /\ UNCHANGED <<dispatchVars, faultVars, mainPc, workers, queueSize, ctxDone, nextId, updates,
                   srcClosed, jobs, jobsClosed, pu, drainDone, prodExit, wpc,
                   cur, stalls, nDispatch, completed, enqueued,
                   dropLog, cancelBeforeExit, queuedAtCancel>>

\* outer select, case u, ok := <-updates with ok.
ProducerReceive ==
    /\ prodPc = "select"
    /\ updates # <<>>
    /\ pu' = Head(updates)
    /\ updates' = Tail(updates)
    /\ prodPc' = "enqueue"
    /\ UNCHANGED <<dispatchVars, faultVars, mainPc, workers, queueSize, ctxDone, nextId, srcClosed,
                   srcStopped, jobs, jobsClosed, drainDone, prodExit, wpc, cur,
                   stalls, nDispatch, completed, enqueued, dropLog,
                   cancelBeforeExit, queuedAtCancel, phaseLog>>

\* outer select, case u, ok := <-updates with !ok: return.
ProducerSourceClosed ==
    /\ prodPc = "select"
    /\ updates = <<>>
    /\ srcClosed
    /\ ProducerReturn("source_closed")
    /\ UNCHANGED <<dispatchVars, faultVars, mainPc, workers, queueSize, ctxDone, nextId, updates,
                   srcClosed, srcStopped, jobs, jobsClosed, pu, drainDone, wpc,
                   cur, stalls, nDispatch, completed, enqueued,
                   dropLog, queuedAtCancel, phaseLog>>

\* ProducerEnqueue as it would be if the send never waited for room in jobs.
ProducerEnqueue_Unbounded ==
    /\ prodPc = "enqueue"
    /\ jobs' = Append(jobs, pu)
    /\ enqueued' = enqueued \cup {pu}
    /\ pu' = 0
    /\ prodPc' = "select"
    /\ UNCHANGED <<dispatchVars, faultVars, mainPc, workers, queueSize, ctxDone, nextId, updates,
                   srcClosed, srcStopped, jobsClosed, drainDone, prodExit, wpc,
                   cur, stalls, nDispatch, completed, dropLog,
                   cancelBeforeExit, queuedAtCancel, phaseLog>>

\* inner select, case jobs <- u.
ProducerEnqueue ==
    /\ prodPc = "enqueue"
    /\ Len(jobs) < queueSize
    /\ jobs' = Append(jobs, pu)
    /\ enqueued' = enqueued \cup {pu}
    /\ pu' = 0
    /\ prodPc' = "select"
    /\ UNCHANGED <<dispatchVars, faultVars, mainPc, workers, queueSize, ctxDone, nextId, updates,
                   srcClosed, srcStopped, jobsClosed, drainDone, prodExit, wpc,
                   cur, stalls, nDispatch, completed, dropLog,
                   cancelBeforeExit, queuedAtCancel, phaseLog>>

\* inner select, case <-ctx.Done(): log "enqueue canceled" and return.
ProducerEnqueueCanceled ==
    /\ prodPc = "enqueue"
    /\ ctxDone
    /\ dropLog' = dropLog \cup {Drop(pu, "cancel")}
    /\ pu' = 0
    /\ ProducerReturn("enqueue_canceled")
    /\ UNCHANGED <<dispatchVars, faultVars, mainPc, workers, queueSize, ctxDone, nextId, updates,
                   srcClosed, srcStopped, jobs, jobsClosed, drainDone, wpc, cur,
                   stalls, nDispatch, completed, enqueued,
                   queuedAtCancel, phaseLog>>

\* drain loop, case u, ok := <-updates with ok: enqueue(drainCtx, u, 2 s) starts.
DrainReceive ==
    /\ prodPc = "drain"
    /\ updates # <<>>
    /\ pu' = Head(updates)
    /\ updates' = Tail(updates)
    /\ prodPc' = "drain_enqueue"
    /\ UNCHANGED <<dispatchVars, faultVars, mainPc, workers, queueSize, ctxDone, nextId, srcClosed,
                   srcStopped, jobs, jobsClosed, drainDone, prodExit, wpc, cur,
                   stalls, nDispatch, completed, enqueued, dropLog,
                   cancelBeforeExit, queuedAtCancel, phaseLog>>

\* drain loop, case u, ok := <-updates with !ok: return.
DrainSourceClosed ==
    /\ prodPc = "drain"
    /\ updates = <<>>
    /\ srcClosed
    /\ ProducerReturn("drain_source_closed")
    /\ UNCHANGED <<dispatchVars, faultVars, mainPc, workers, queueSize, ctxDone, nextId, updates,
                   srcClosed, srcStopped, jobs, jobsClosed, pu, drainDone, wpc,
                   cur, stalls, nDispatch, completed, enqueued,
                   dropLog, queuedAtCancel, phaseLog>>

\* DrainBudgetSpent as it would be if the drain loop only received from
\* updates and had no case for drainCtx.Done().
DrainBudgetSpent_Missing == FALSE /\ UNCHANGED vars

\* drain loop, case <-drainCtx.Done(): return.
DrainBudgetSpent ==
    /\ prodPc = "drain"
    /\ drainDone
    /\ ProducerReturn("drain_timeout")
    /\ UNCHANGED <<dispatchVars, faultVars, mainPc, workers, queueSize, ctxDone, nextId, updates,
                   srcClosed, srcStopped, jobs, jobsClosed, pu, drainDone, wpc,
                   cur, stalls, nDispatch, completed, enqueued,
                   dropLog, queuedAtCancel, phaseLog>>

\* enqueue helper with timeout > 0, case jobs <- u: return true.
DrainEnqueue ==
    /\ prodPc = "drain_enqueue"
    /\ Len(jobs) < queueSize
    /\ jobs' = Append(jobs, pu)
    /\ enqueued' = enqueued \cup {pu}
    /\ pu' = 0
    /\ prodPc' = "drain"
    /\ UNCHANGED <<dispatchVars, faultVars, mainPc, workers, queueSize, ctxDone, nextId, updates,
                   srcClosed, srcStopped, jobsClosed, drainDone, prodExit, wpc,
                   cur, stalls, nDispatch, completed, dropLog,
                   cancelBeforeExit, queuedAtCancel, phaseLog>>

\* enqueue helper, case <-ctx.Done() (ctx is drainCtx): return false; the
\* caller logs "drop update during shutdown" and loops.
DrainEnqueueCtxDone ==
    /\ prodPc = "drain_enqueue"
    /\ drainDone
    /\ dropLog' = dropLog \cup {Drop(pu, "drain_budget")}
    /\ pu' = 0
    /\ prodPc' = "drain"
    /\ UNCHANGED <<dispatchVars, faultVars, mainPc, workers, queueSize, ctxDone, nextId, updates,
                   srcClosed, srcStopped, jobs, jobsClosed, drainDone, prodExit,
                   wpc, cur, stalls, nDispatch, completed, enqueued,
                   cancelBeforeExit, queuedAtCancel, phaseLog>>

\* DrainEnqueueTimeout as it would be if the caller of enqueue went on
\* without logging the update it could not enqueue.
DrainEnqueueTimeout_Silent ==
    /\ prodPc = "drain_enqueue"
    /\ Len(jobs) >= queueSize
    /\ pu' = 0
    /\ prodPc' = "drain"
    /\ UNCHANGED <<dispatchVars, faultVars, mainPc, workers, queueSize, ctxDone, nextId, updates,
                   srcClosed, srcStopped, jobs, jobsClosed, drainDone, prodExit,
                   wpc, cur, stalls, nDispatch, completed, enqueued, dropLog,
                   cancelBeforeExit, queuedAtCancel, phaseLog>>

\* enqueue helper, case <-timer.C: return false.  The 2 s timer is started
\* right before the select, so it fires only on a sender that found jobs full
\* and is still parked (a receive on a full channel with a parked sender
\* completes that send in the same step).
DrainEnqueueTimeout ==
    /\ prodPc = "drain_enqueue"
    /\ Len(jobs) >= queueSize
    /\ dropLog' = dropLog \cup {Drop(pu, "item_budget")}
    /\ pu' = 0
    /\ prodPc' = "drain"
    /\ UNCHANGED <<dispatchVars, faultVars, mainPc, workers, queueSize, ctxDone, nextId, updates,
                   srcClosed, srcStopped, jobs, jobsClosed, drainDone, prodExit,
                   wpc, cur, stalls, nDispatch, completed, enqueued,
                   cancelBeforeExit, queuedAtCancel, phaseLog>>

Producer ==
    \/ ProducerCancelled
    \/ ProducerReceive
    \/ ProducerSourceClosed
    \/ ProducerEnqueue
    \/ ProducerEnqueueCanceled
    \/ DrainReceive
    \/ DrainSourceClosed
    \/ DrainBudgetSpent
    \/ DrainEnqueue
    \/ DrainEnqueueCtxDone
    \/ DrainEnqueueTimeout

\* ----------------------------------------------------------------- workers

\* May worker w call HandleUpdate now?  Nothing in the worker loop or at the
\* entry of HandleUpdate waits for another worker.
MayDispatch_Serialised(w) == \A v \in Workers : v # w => wpc[v] # "handling"

MayDispatch(w) == TRUE

\* WorkerReceive as it would be if the value were read without being taken off
\* the channel.
WorkerReceive_Peek(w) ==
    /\ Active(w)
    /\ wpc[w] = "recv"
    /\ jobs # <<>>
    /\ cur' = [cur EXCEPT ![w] = Head(jobs)]
    /\ wpc' = [wpc EXCEPT ![w] = "handling"]
    /\ nDispatch' = [nDispatch EXCEPT ![Head(jobs)] = @ + 1]
    /\ UNCHANGED <<dispatchVars, faultVars, mainPc, workers, queueSize, ctxDone, nextId, updates,
                   srcClosed, srcStopped, jobs, jobsClosed, prodPc, pu,
                   drainDone, prodExit, stalls, completed, enqueued, dropLog,
                   cancelBeforeExit, queuedAtCancel, phaseLog>>

\* for u := range jobs { uu := u; r.HandleUpdate(&uu) ... : a value is
\* received and HandleUpdate is called with it.
WorkerReceive(w) ==
    /\ Active(w)
    /\ wpc[w] = "recv"
    /\ jobs # <<>>
    /\ MayDispatch(w)
    /\ cur' = [cur EXCEPT ![w] = Head(jobs)]
    /\ jobs' = Tail(jobs)
    /\ wpc' = [wpc EXCEPT ![w] = "handling"]
    /\ nDispatch' = [nDispatch EXCEPT ![Head(jobs)] = @ + 1]
    /\ UNCHANGED <<dispatchVars, faultVars, mainPc, workers, queueSize, ctxDone, nextId, updates,
                   srcClosed, srcStopped, jobsClosed, prodPc, pu, drainDone,
                   prodExit, stalls, completed, enqueued, dropLog,
                   cancelBeforeExit, queuedAtCancel, phaseLog>>

\* r.HandleUpdate(&uu) returns and the worker goes back to the range.
WorkerHandled(w) ==
    /\ Active(w)
    /\ wpc[w] = "handling"
    /\ cur[w] \notin stalls
    /\ cur[w] \notin panics
    /\ completed' = completed \cup {cur[w]}
    /\ cur' = [cur EXCEPT ![w] = 0]
    /\ wpc' = [wpc EXCEPT ![w] = "recv"]
    /\ UNCHANGED <<dispatchVars, faultVars, mainPc, workers, queueSize, ctxDone, nextId, updates,
                   srcClosed, srcStopped, jobs, jobsClosed, prodPc, pu,
                   drainDone, prodExit, stalls, nDispatch, enqueued,
                   dropLog, cancelBeforeExit, queuedAtCancel, phaseLog>>

\* r.HandleUpdate(&uu) panics and nothing recovers: the worker goroutine has
\* no recover of its own, so the Go runtime ends the process, and with it
\* every goroutine.
WorkerPanic(w) ==
    /\ Active(w)
    /\ wpc[w] = "handling"
    /\ cur[w] \in panics
    /\ crashed' = TRUE
    /\ UNCHANGED <<dispatchVars, listenVars, panics>>

\* May worker w leave its loop?  `for u := range jobs` ends only when jobs is
\* closed and drained.
RangeOver_OnCancel(w) == ctxDone \/ (jobsClosed > 0 /\ jobs = <<>>)

RangeOver(w) == jobsClosed > 0 /\ jobs = <<>>

\* WorkerExit as it would be if the worker polled jobs and left when it found
\* it empty.
WorkerExit_WhenEmpty(w) ==
    /\ Active(w)
    /\ wpc[w] = "recv"
    /\ jobs = <<>>
    /\ wpc' = [wpc EXCEPT ![w] = "exited"]
    /\ UNCHANGED <<dispatchVars, faultVars, mainPc, workers, queueSize, ctxDone, nextId, updates,
                   srcClosed, srcStopped, jobs, jobsClosed, prodPc, pu,
                   drainDone, prodExit, cur, stalls, nDispatch, completed, enqueued, dropLog, cancelBeforeExit,
                   queuedAtCancel, phaseLog>>

\* The range over jobs ends: jobs is closed and empty; defer wg.Done().
WorkerExit(w) ==
    /\ Active(w)
    /\ wpc[w] = "recv"
    /\ RangeOver(w)
    /\ wpc' = [wpc EXCEPT ![w] = "exited"]
    /\ UNCHANGED <<dispatchVars, faultVars, mainPc, workers, queueSize, ctxDone, nextId, updates,
                   srcClosed, srcStopped, jobs, jobsClosed, prodPc, pu,
                   drainDone, prodExit, cur, stalls, nDispatch, completed, enqueued, dropLog, cancelBeforeExit,
                   queuedAtCancel, phaseLog>>

\* ------------------------------------------------- ListenWithContext: end

\* MainCloseJobs as it would be if close(jobs) did not wait for produceDone.
MainCloseJobs_NoWait ==
    /\ mainPc = "wait_produce"
    /\ jobsClosed' = jobsClosed + 1
    /\ mainPc' = "wg_wait"
    /\ UNCHANGED <<dispatchVars, faultVars, workers, queueSize, ctxDone, nextId, updates,
                   srcClosed, srcStopped, jobs, prodPc, pu, drainDone, prodExit,
                   wpc, cur, stalls, nDispatch, completed, enqueued,
                   dropLog, cancelBeforeExit, queuedAtCancel, phaseLog>>

\* <-produceDone; close(jobs)
MainCloseJobs ==
    /\ mainPc = "wait_produce"
    /\ prodPc = "exited"
    /\ jobsClosed' = jobsClosed + 1
    /\ mainPc' = "wg_wait"
    /\ UNCHANGED <<dispatchVars, faultVars, workers, queueSize, ctxDone, nextId, updates,
                   srcClosed, srcStopped, jobs, prodPc, pu, drainDone, prodExit,
                   wpc, cur, stalls, nDispatch, completed, enqueued,
                   dropLog, cancelBeforeExit, queuedAtCancel, phaseLog>>

\* MainReturn as it would be without wg.Wait().
MainReturn_NoWait ==
    /\ mainPc = "wg_wait"
    /\ mainPc' = "returned"
    /\ phaseLog' = Append(phaseLog, "Stopped")
    /\ UNCHANGED <<dispatchVars, faultVars, workers, queueSize, ctxDone, nextId, updates,
                   srcClosed, srcStopped, jobs, jobsClosed, prodPc, pu,
                   drainDone, prodExit, wpc, cur, stalls, nDispatch, completed, enqueued, dropLog, cancelBeforeExit, queuedAtCancel>>

\* wg.Wait() returns and so does ListenWithContext.
MainReturn ==
    /\ mainPc = "wg_wait"
    /\ \A w \in Workers : Active(w) => wpc[w] = "exited"
    /\ mainPc' = "returned"
    /\ phaseLog' = Append(phaseLog, "Stopped")
    /\ UNCHANGED <<dispatchVars, faultVars, workers, queueSize, ctxDone, nextId, updates,
                   srcClosed, srcStopped, jobs, jobsClosed, prodPc, pu,
                   drainDone, prodExit, wpc, cur, stalls, nDispatch, completed, enqueued, dropLog, cancelBeforeExit, queuedAtCancel>>
\* ==================================================================
\* Part II: Context, the registration store, composeHandlers, HandleUpdate
\* ==================================================================

\* ------------------------------------------------------------------ strings
\* A Go string is modelled as the sequence of its characters.

\* strings.Index(s, ch) + 1: the first position of character ch in s, 0 if none.
RECURSIVE IndexFrom(_, _, _)
IndexFrom(s, ch, i) ==
    IF i > Len(s) THEN 0
    ELSE IF s[i] = ch THEN i
    ELSE IndexFrom(s, ch, i + 1)

Index(s, ch) == IndexFrom(s, ch, 1)

\* strings.Split(s, sep) for a one-character sep: always at least one part.
RECURSIVE Split(_, _)
Split(s, sep) ==
    LET i == Index(s, sep) IN
    IF i = 0 THEN <<s>>
    ELSE <<SubSeq(s, 1, i - 1)>> \o Split(SubSeq(s, i + 1, Len(s)), sep)

\* strings.SplitN(s, sep, 2)
SplitN2(s, sep) ==
    LET i == Index(s, sep) IN
    IF i = 0 THEN <<s>>
    ELSE <<SubSeq(s, 1, i - 1), SubSeq(s, i + 1, Len(s))>>

\* strings.HasPrefix(part, ":")
HasColonPrefix(part) == Len(part) >= 1 /\ part[1] = ":"

\* ----------------------------------------------------------- route patterns

\* parseRouteParams: the names of the parts that start with ':', in order.
RECURSIVE ParamsOfParts(_)
ParamsOfParts(parts) ==
    IF parts = <<>> THEN <<>>
    ELSE (IF HasColonPrefix(Head(parts))
             THEN <<SubSeq(Head(parts), 2, Len(Head(parts)))>>
             ELSE <<>>) \o ParamsOfParts(Tail(parts))

parseRouteParams(pattern) == ParamsOfParts(Split(pattern, "/"))

\* compileRoutePattern: "^" + parts joined by "/" + "$", where a ':name' part
\* became ([^/]+) and a '*' part became .* ; the regular expression is kept
\* as its sequence of tokens.  (Static parts are taken to hold no regular
\* expression metacharacters.)
RECURSIVE TokensOfParts(_)
TokensOfParts(parts) ==
    LET p == Head(parts)
        tok == IF HasColonPrefix(p) THEN <<[k |-> "group"]>>
               ELSE IF p = <<"*">> THEN <<[k |-> "any"]>>
               ELSE [i \in 1..Len(p) |-> [k |-> "lit", ch |-> p[i]]]
    IN  IF Len(parts) = 1 THEN tok
        ELSE tok \o <<[k |-> "lit", ch |-> "/"]>> \o TokensOfParts(Tail(parts))

compileRoutePattern(pattern) == TokensOfParts(Split(pattern, "/"))

NoMatch == [ok |-> FALSE, groups |-> <<>>]

\* The longest run of characters other than '/' in s from position pos.
RECURSIVE SegLen(_, _)
SegLen(s, pos) ==
    IF pos > Len(s) \/ s[pos] = "/" THEN 0 ELSE 1 + SegLen(s, pos + 1)

\* regexp matching of an anchored token sequence, leftmost-first (greedy
\* repetitions prefer the longest run, then back off).
RECURSIVE MatchFrom(_, _, _, _), TryLen(_, _, _, _, _, _)
MatchFrom(toks, s, pos, groups) ==
    IF toks = <<>>
    THEN IF pos = Len(s) + 1 THEN [ok |-> TRUE, groups |-> groups] ELSE NoMatch
    ELSE LET tk == Head(toks) IN
         CASE tk.k = "lit" ->
                IF pos <= Len(s) /\ s[pos] = tk.ch
                THEN MatchFrom(Tail(toks), s, pos + 1, groups)
                ELSE NoMatch
           [] tk.k = "group" -> TryLen(toks, s, pos, groups, SegLen(s, pos), 1)
           [] tk.k = "any" -> TryLen(toks, s, pos, groups, Len(s) + 1 - pos, 0)

TryLen(toks, s, pos, groups, n, min) ==
    IF n < min THEN NoMatch
    ELSE LET g == IF Head(toks).k = "group"
                  THEN Append(groups, SubSeq(s, pos, pos + n - 1))
                  ELSE groups
             r == MatchFrom(Tail(toks), s, pos + n, g)
         IN  IF r.ok THEN r ELSE TryLen(toks, s, pos, groups, n - 1, min)

\* regex.FindStringSubmatch(s): ok = (matches != nil); groups = matches[1:].
FindStringSubmatch(regex, s) == MatchFrom(regex, s, 1, <<>>)

EmptyMap == [x \in {} |-> <<>>]

MapPut(m, key, v) ==
    [x \in (DOMAIN m) \cup {key} |-> IF x = key THEN v ELSE m[x]]

\* The binding loop if it paired the names with the groups from the far end.
RECURSIVE BindParams_Reversed(_, _, _, _)
BindParams_Reversed(names, groups, i, params) ==
    IF i > Len(names) THEN params
    ELSE BindParams_Reversed(names, groups, i + 1,
                    IF i <= Len(groups)
                    THEN MapPut(params, names[i], groups[Len(groups) + 1 - i])
                    ELSE params)

\* for i, name := range route.params { if i+1 < len(matches) { params[name] = matches[i+1] } }
RECURSIVE BindParams(_, _, _, _)
BindParams(names, groups, i, params) ==
    IF i > Len(names) THEN params
    ELSE BindParams(names, groups, i + 1,
                    IF i <= Len(groups) THEN MapPut(params, names[i], groups[i])
                    ELSE params)

\* ---------------------------------------------------------------- parseQuery

HexDigits == {"0", "1", "2", "3", "4", "5", "6", "7", "8", "9",
              "a", "b", "c", "d", "e", "f", "A", "B", "C", "D", "E", "F"}

\* The character with the two-digit hexadecimal code hi lo; the table lists
\* the codes that the modelled inputs use.
ByteChar(hi, lo) ==
    CASE hi = "2" /\ lo = "0" -> " "
      [] hi = "2" /\ lo = "5" -> "%"
      [] hi = "2" /\ lo = "6" -> "&"
      [] hi = "2" /\ lo \in {"F", "f"} -> "/"
      [] hi = "3" /\ lo \in {"D", "d"} -> "="
      [] hi = "4" /\ lo = "1" -> "A"
      [] OTHER -> "?"

\* url.QueryUnescape: err is set by a '%' that is not followed by two
\* hexadecimal digits, and the returned string is then empty.
RECURSIVE Unescape(_, _)
Unescape(s, i) ==
    IF i > Len(s) THEN [err |-> FALSE, s |-> <<>>]
    ELSE IF s[i] = "%"
         THEN IF i + 2 > Len(s) \/ s[i + 1] \notin HexDigits \/ s[i + 2] \notin HexDigits
              THEN [err |-> TRUE, s |-> <<>>]
              ELSE LET r == Unescape(s, i + 3) IN
                   IF r.err THEN r
                   ELSE [err |-> FALSE, s |-> <<ByteChar(s[i + 1], s[i + 2])>> \o r.s]
         ELSE LET r == Unescape(s, i + 1) IN
              IF r.err THEN r
              ELSE [err |-> FALSE, s |-> <<IF s[i] = "+" THEN " " ELSE s[i]>> \o r.s]

QueryUnescape(s) == Unescape(s, 1)

RECURSIVE ParsePairs(_, _, _)
ParsePairs(pairs, i, params) ==
    IF i > Len(pairs) THEN params
    ELSE LET kv == SplitN2(pairs[i], "=") IN
         ParsePairs(pairs, i + 1,
                    IF Len(kv) = 2
                    THEN MapPut(params, QueryUnescape(kv[1]).s, QueryUnescape(kv[2]).s)
                    ELSE params)

parseQuery(query) ==
    IF query = <<>> THEN EmptyMap
    ELSE ParsePairs(Split(query, "&"), 1, EmptyMap)

\* ------------------------------------------------------------------ Context
\* A HandlerFunc is a record.  k = "user" is a function of the application:
\* id names it, and script is what its body does with the context, a
\* sequence of "next" (c.Next()), "abort" (c.Abort()) and "panic".  The other
\* kinds are the closures the router builds around registered handlers, and
\* the Recover middleware.
\* A Context carries, besides its fields, the log of what ran on it and
\* whether a panic is unwinding the goroutine's stack.

Ev(e, h) == [ev |-> e, cat |-> h.id.cat, r |-> h.id.r, n |-> h.id.n]

Abort_ByValue(c) == c

Abort(c) == [c EXCEPT !.aborted = TRUE]

IsAborted(c) == c.aborted

\* A panic raised under this call has not been recovered: the call is left
\* at once, and so is its caller.
Panicking(c) == c.panicking

RECURSIVE Call(_, _, _), RunScript(_, _, _, _), NextLoop(_, _)

executeHandler(t, c, handler) ==
    IF handler.k # "nil" /\ ~IsAborted(c) THEN Call(t, handler, c) ELSE c

\* The loop of Next if it kept its position in a variable of its own and
\* went on from there after a handler returned, wherever the handler left
\* c.index.
NextLoop_ResumeAt(t, c2, i) ==
    IF Panicking(c2) THEN c2 ELSE NextLoop(t, [c2 EXCEPT !.index = i])

NextLoop_LocalCursor(t, c) ==
    IF c.index < Len(c.handlers)
    THEN IF IsAborted(c) THEN c
         ELSE NextLoop_ResumeAt(t, executeHandler(t, c, c.handlers[c.index + 1]),
                                c.index + 1)
    ELSE c

\* c.index++ after the handler returned; a panic leaves the loop.
NextIndex(t, c2) ==
    IF Panicking(c2) THEN c2 ELSE NextLoop(t, [c2 EXCEPT !.index = @ + 1])

NextLoop(t, c) ==
    IF c.index < Len(c.handlers)
    THEN IF IsAborted(c) THEN c
         ELSE NextIndex(t, executeHandler(t, c, c.handlers[c.index + 1]))
    ELSE c

CtxNext(t, c) == NextLoop(t, [c EXCEPT !.index = @ + 1])

\* The body of a registered function after its step i, a c.Next(), returned.
AfterNext(t, h, i, c2) ==
    IF Panicking(c2) THEN c2 ELSE RunScript(t, h, i + 1, c2)

\* The body of a registered function, from its step i on.
RunScript(t, h, i, c) ==
    IF i > Len(h.script) THEN [c EXCEPT !.log = Append(@, Ev("return", h))]
    ELSE CASE h.script[i] = "abort" ->
                RunScript(t, h, i + 1,
                          Abort([c EXCEPT !.log = Append(@, Ev("abort", h))]))
           [] h.script[i] = "next" ->
                AfterNext(t, h, i, CtxNext(t, c))
           [] h.script[i] = "panic" ->
                [c EXCEPT !.log = Append(@, Ev("panic", h)), !.panicking = TRUE]

\* The deferred function of Recover without its ctx.Abort().
RecoverDeferred_NoAbort(h, c2) ==
    IF Panicking(c2)
    THEN [c2 EXCEPT !.panicking = FALSE, !.log = Append(@, Ev("recover", h))]
    ELSE [c2 EXCEPT !.log = Append(@, Ev("return", h))]

\* The deferred function of Recover, run when ctx.Next() has ended: when
\* recover() returns a panic, it logs it and calls ctx.Abort().
RecoverDeferred(h, c2) ==
    IF Panicking(c2)
    THEN Abort([c2 EXCEPT !.panicking = FALSE, !.log = Append(@, Ev("recover", h))])
    ELSE [c2 EXCEPT !.log = Append(@, Ev("return", h))]

\* Recover: ctx.Next() under its deferred function.
Recover(t, h, c) ==
    RecoverDeferred(h, CtxNext(t, [c EXCEPT !.log = Append(@, Ev("enter", h))]))

\* The range test with the bounds excluded.
InRange_Exclusive(loc, range) ==
    /\ loc.Latitude > range.MinLat /\ loc.Latitude < range.MaxLat
    /\ loc.Longitude > range.MinLon /\ loc.Longitude < range.MaxLon

\* The closure LocationInRange registers: handler(c) when the location of
\* the message lies in the range, bounds included.
InRange(loc, range) ==
    /\ loc.Latitude >= range.MinLat /\ loc.Latitude <= range.MaxLat
    /\ loc.Longitude >= range.MinLon /\ loc.Longitude <= range.MaxLon

\* handler(c) for each kind of HandlerFunc.
Call(t, h, c) ==
    CASE h.k = "user" ->
            RunScript(t, h, 1, [c EXCEPT !.log = Append(@, Ev("enter", h))])
      [] h.k = "composed" ->
            CtxNext(t, [c EXCEPT !.handlers = t.middlewares \o <<h.h>>,
                                 !.index = -1])
      [] h.k = "route" ->
            CtxNext(t, [c EXCEPT !.handlers = h.hs, !.index = -1])
      [] h.k = "update" ->
            CtxNext(t, [c EXCEPT !.handlers = t.middlewares \o h.hs,
                                 !.index = -1])
      [] h.k = "recover" -> Recover(t, h, c)
      [] h.k = "inRange" ->
            IF InRange(c.Update.location, h.range) THEN Call(t, h.h, c) ELSE c

\* ------------------------------------------------------- the handler tables

\* The plain handler lists of the router: Tables[i] stands for the field
\* <name>Handlers and, composed, <name>HandlersC.
Tables ==
    {"text", "document", "audio", "video", "photo", "sticker", "callback",
     "location", "contact", "poll", "quiz", "regularPoll", "game", "voice",
     "videoNote", "animation", "liveLocation", "channelPost", "inlineQuery",
     "chosenInlineResult", "groupChatCreated", "supergroupChatCreated",
     "channelChatCreated", "newChatMembers", "leftChatMember", "newChatTitle",
     "newChatPhoto", "deleteChatPhoto", "editedMessage", "editedChannelPost",
     "myChatMember", "chatMember", "pollAnswer", "preCheckoutQuery",
     "shippingQuery", "successfulPayment"}

NewTelegramRouter ==
    [middlewares |-> <<>>,
     updateHandlers |-> <<>>,
     handlers |-> [n \in Tables |-> <<>>],
     handlersC |-> [n \in Tables |-> <<>>],
     commandHandlers |-> EmptyMap,
     commandHandlersC |-> EmptyMap,
     commandRegexRoutes |-> <<>>,
     commandRegexRoutesC |-> <<>>,
     callbackRoutes |-> <<>>,
     callbackRoutesC |-> <<>>,
     pollTypeHandlers |-> EmptyMap,
     pollTypeHandlersC |-> EmptyMap,
     locationRangeHandlers |-> EmptyMap,
     locationRangeHandlersC |-> EmptyMap,
     documentTypeHandlers |-> EmptyMap,
     documentTypeHandlersC |-> EmptyMap,
     composedDirty |-> FALSE]

applyMiddlewares(handler) == [k |-> "composed", h |-> handler]

\* wrapMany as it would be if it put the middleware once around the whole
\* list, as OnUpdate does with its arguments.
wrapMany_AroundList(src) ==
    IF src = <<>> THEN <<>> ELSE <<[k |-> "update", hs |-> src]>>

wrapMany(src) == [i \in 1..Len(src) |-> applyMiddlewares(src[i])]

wrapMap(m) == [key \in DOMAIN m |-> wrapMany(m[key])]

\* composeHandlers if it added to the composed tables it finds instead of
\* building them anew.
composeHandlers_NoReset(t) ==
    IF ~t.composedDirty THEN t
    ELSE [t EXCEPT
            !.handlersC = [n \in Tables |-> t.handlersC[n] \o wrapMany(t.handlers[n])],
            !.pollTypeHandlersC = wrapMap(t.pollTypeHandlers),
            !.locationRangeHandlersC = wrapMap(t.locationRangeHandlers),
            !.documentTypeHandlersC = wrapMap(t.documentTypeHandlers),
            !.callbackRoutesC =
                t.callbackRoutesC \o
                [i \in 1..Len(t.callbackRoutes) |->
                    [t.callbackRoutes[i] EXCEPT !.handler = applyMiddlewares(@)]],
            !.commandHandlersC = wrapMap(t.commandHandlers),
            !.commandRegexRoutesC =
                [i \in 1..Len(t.commandRegexRoutes) |->
                    [t.commandRegexRoutes[i] EXCEPT !.handlers = wrapMany(@)]],
            !.composedDirty = FALSE]

composeHandlers(t) ==
    IF ~t.composedDirty THEN t
    ELSE [t EXCEPT
            !.handlersC = [n \in Tables |-> wrapMany(t.handlers[n])],
            !.pollTypeHandlersC = wrapMap(t.pollTypeHandlers),
            !.locationRangeHandlersC = wrapMap(t.locationRangeHandlers),
            !.documentTypeHandlersC = wrapMap(t.documentTypeHandlers),
            !.callbackRoutesC =
                [i \in 1..Len(t.callbackRoutes) |->
                    [t.callbackRoutes[i] EXCEPT !.handler = applyMiddlewares(@)]],
            !.commandHandlersC = wrapMap(t.commandHandlers),
            !.commandRegexRoutesC =
                [i \in 1..Len(t.commandRegexRoutes) |->
                    [t.commandRegexRoutes[i] EXCEPT !.handlers = wrapMany(@)]],
            !.composedDirty = FALSE]

\* ------------------------------------------------------------- HandleUpdate
\* An update is a record: top holds the non-nil pointer fields of the Update,
\* msg the fields of update.Message that are set (IsCommand standing for
\* Message.IsCommand()); the other fields are the payload values the
\* dispatcher reads.

MsgHas(u, f) == "Message" \in u.top /\ f \in u.msg

\* What a dispatch has reached: the context, and whether HandleUpdate returned.
Return(d) == [d EXCEPT !.done = TRUE]

\* h(c); if c.IsAborted() { return } : the dispatch after one handler ran.
Ran(c2) == [c |-> c2, done |-> IsAborted(c2) \/ Panicking(c2)]

\* for _, h := range hs { h(c); if c.IsAborted() { return } }
RECURSIVE RunListFrom(_, _, _, _)
RunListFrom(t, hs, i, d) ==
    IF d.done \/ i > Len(hs) THEN d
    ELSE RunListFrom(t, hs, i + 1, Ran(Call(t, hs[i], d.c)))

RunList(t, hs, d) == RunListFrom(t, hs, 1, d)

\* for _, handler := range t.updateHandlers { if c.IsAborted() { return }; handler(c) }
\* followed by the test  if !c.IsAborted()  around all the other stages.
RECURSIVE RunUpdateHandlers(_, _, _)
RunUpdateHandlers(t, i, d) ==
    IF IsAborted(d.c) \/ Panicking(d.c) THEN Return(d)
    ELSE IF i > Len(t.updateHandlers) THEN d
    ELSE RunUpdateHandlers(t, i + 1,
                           [d EXCEPT !.c = Call(t, t.updateHandlers[i], d.c)])

\* The stages that are one test and one loop over a composed list.
ChatEventStages ==
    << [tab |-> "groupChatCreated", lvl |-> "msg", f |-> "GroupChatCreated"],
       [tab |-> "supergroupChatCreated", lvl |-> "msg", f |-> "SuperGroupChatCreated"],
       [tab |-> "channelChatCreated", lvl |-> "msg", f |-> "ChannelChatCreated"],
       [tab |-> "newChatMembers", lvl |-> "msg", f |-> "NewChatMembers"],
       [tab |-> "leftChatMember", lvl |-> "msg", f |-> "LeftChatMember"],
       [tab |-> "newChatTitle", lvl |-> "msg", f |-> "NewChatTitle"],
       [tab |-> "newChatPhoto", lvl |-> "msg", f |-> "NewChatPhoto"],
       [tab |-> "deleteChatPhoto", lvl |-> "msg", f |-> "DeleteChatPhoto"],
       [tab |-> "editedMessage", lvl |-> "top", f |-> "EditedMessage"],
       [tab |-> "editedChannelPost", lvl |-> "top", f |-> "EditedChannelPost"],
       [tab |-> "myChatMember", lvl |-> "top", f |-> "MyChatMember"],
       [tab |-> "chatMember", lvl |-> "top", f |-> "ChatMember"],
       [tab |-> "pollAnswer", lvl |-> "top", f |-> "PollAnswer"],
       [tab |-> "preCheckoutQuery", lvl |-> "top", f |-> "PreCheckoutQuery"],
       [tab |-> "shippingQuery", lvl |-> "top", f |-> "ShippingQuery"],
       [tab |-> "successfulPayment", lvl |-> "msg", f |-> "SuccessfulPayment"] >>

MessageStages ==
    << [tab |-> "text", lvl |-> "msg", f |-> "Text"],
       [tab |-> "inlineQuery", lvl |-> "top", f |-> "InlineQuery"],
       [tab |-> "chosenInlineResult", lvl |-> "top", f |-> "ChosenInlineResult"],
       [tab |-> "document", lvl |-> "msg", f |-> "Document"],
       [tab |-> "audio", lvl |-> "msg", f |-> "Audio"],
       [tab |-> "video", lvl |-> "msg", f |-> "Video"],
       [tab |-> "photo", lvl |-> "msg", f |-> "Photo"],
       [tab |-> "sticker", lvl |-> "msg", f |-> "Sticker"] >>

LateStages ==
    << [tab |-> "quiz", lvl |-> "quiz", f |-> "Poll"],
       [tab |-> "game", lvl |-> "msg", f |-> "Game"],
       [tab |-> "voice", lvl |-> "msg", f |-> "Voice"],
       [tab |-> "videoNote", lvl |-> "msg", f |-> "VideoNote"],
       [tab |-> "animation", lvl |-> "msg", f |-> "Animation"],
       [tab |-> "liveLocation", lvl |-> "live", f |-> "Location"],
       [tab |-> "channelPost", lvl |-> "top", f |-> "ChannelPost"] >>

StageApplies(u, st) ==
    CASE st.lvl = "top" -> st.f \in u.top
      [] st.lvl = "msg" -> MsgHas(u, st.f)
      [] st.lvl = "quiz" -> MsgHas(u, st.f) /\ u.pollType = "quiz"
      [] st.lvl = "live" -> MsgHas(u, st.f) /\ u.location.LivePeriod > 0

\* if <test> { loop }  : dispatch goes on to the next test unless aborted.
RECURSIVE RunChatEvents(_, _, _, _)
RunChatEvents(t, u, i, d) ==
    IF d.done \/ i > Len(ChatEventStages) THEN d
    ELSE RunChatEvents(t, u, i + 1,
            IF StageApplies(u, ChatEventStages[i])
            THEN RunList(t, t.handlersC[ChatEventStages[i].tab], d)
            ELSE d)

\* if <test> { loop; return }
RECURSIVE RunStages(_, _, _, _, _)
RunStages(t, u, stages, i, d) ==
    IF d.done \/ i > Len(stages) THEN d
    ELSE IF StageApplies(u, stages[i])
         THEN Return(RunList(t, t.handlersC[stages[i].tab], d))
         ELSE RunStages(t, u, stages, i + 1, d)

\* regex.MatchString(cmd): a *regexp.Regexp for commands is kept as whether
\* the pointer is nil and the set of command names the expression matches.
MatchString(regex, cmd) == cmd \in regex.lang

\* The regex route loop if it went on after the first route that matches.
RECURSIVE RunCommandRegex_AllMatches(_, _, _, _)
RunCommandRegex_AllMatches(t, cmd, i, d) ==
    IF d.done \/ i > Len(t.commandRegexRoutesC) THEN d
    ELSE RunCommandRegex_AllMatches(t, cmd, i + 1,
            IF MatchString(t.commandRegexRoutesC[i].regex, cmd)
            THEN RunList(t, t.commandRegexRoutesC[i].handlers, d)
            ELSE d)

RECURSIVE RunCommandRegex(_, _, _, _)
RunCommandRegex(t, cmd, i, d) ==
    IF i > Len(t.commandRegexRoutesC) THEN d
    ELSE IF MatchString(t.commandRegexRoutesC[i].regex, cmd)
         THEN Return(RunList(t, t.commandRegexRoutesC[i].handlers, d))
         ELSE RunCommandRegex(t, cmd, i + 1, d)

\* The command stage if it returned when no entry and no route matches.
CommandStage_ReturnUnmatched(t, u, d) ==
    IF d.done \/ ~MsgHas(u, "IsCommand") THEN d
    ELSE IF u.command \in DOMAIN t.commandHandlersC
         THEN Return(RunList(t, t.commandHandlersC[u.command], d))
         ELSE Return(RunCommandRegex(t, u.command, 1, d))

CommandStage(t, u, d) ==
    IF d.done \/ ~MsgHas(u, "IsCommand") THEN d
    ELSE IF u.command \in DOMAIN t.commandHandlersC
         THEN Return(RunList(t, t.commandHandlersC[u.command], d))
         ELSE RunCommandRegex(t, u.command, 1, d)

\* The route loop if it stopped at the first route that matches.
RECURSIVE RunCallbackRoutes_FirstMatch(_, _, _, _)
RunCallbackRoutes_FirstMatch(t, path, i, d) ==
    IF d.done \/ i > Len(t.callbackRoutesC) THEN d
    ELSE LET route == t.callbackRoutesC[i]
             matches == FindStringSubmatch(route.regex, path)
         IN  IF matches.ok
             THEN Ran(Call(t, route.handler,
                           [d.c EXCEPT !.params =
                               BindParams(route.params, matches.groups, 1, EmptyMap)]))
             ELSE RunCallbackRoutes_FirstMatch(t, path, i + 1, d)

RECURSIVE RunCallbackRoutes(_, _, _, _)
RunCallbackRoutes(t, path, i, d) ==
    IF d.done \/ i > Len(t.callbackRoutesC) THEN d
    ELSE LET route == t.callbackRoutesC[i]
             matches == FindStringSubmatch(route.regex, path)
         IN  IF matches.ok
             THEN RunCallbackRoutes(t, path, i + 1,
                     Ran(Call(t, route.handler,
                              [d.c EXCEPT !.params =
                                  BindParams(route.params, matches.groups, 1, EmptyMap)])))
             ELSE RunCallbackRoutes(t, path, i + 1, d)

\* The callback stage if it matched the routes against the whole data and
\* parsed no query.
CallbackStage_WholeData(t, u, d) ==
    IF d.done \/ "CallbackQuery" \notin u.top THEN d
    ELSE Return(RunList(t, t.handlersC["callback"],
                        RunCallbackRoutes(t, u.data, 1, d)))

CallbackStage(t, u, d) ==
    IF d.done \/ "CallbackQuery" \notin u.top THEN d
    ELSE LET idx == Index(u.data, "?")
             routed ==
                 IF idx # 0
                 THEN RunCallbackRoutes(t, SubSeq(u.data, 1, idx - 1), 1,
                         [d EXCEPT !.c.query =
                             parseQuery(SubSeq(u.data, idx + 1, Len(u.data)))])
                 ELSE RunCallbackRoutes(t, u.data, 1, d)
         IN  Return(RunList(t, t.handlersC["callback"], routed))

\* for key, handlers := range m { if <key matches> { loop } } : keys is the
\* order in which this range statement visits the keys that match.
RECURSIVE RunKeys(_, _, _, _, _)
RunKeys(t, m, keys, i, d) ==
    IF d.done \/ i > Len(keys) THEN d
    ELSE RunKeys(t, m, keys, i + 1, RunList(t, m[keys[i]], d))

LocationStage(t, u, ord, d) ==
    IF d.done \/ ~MsgHas(u, "Location") THEN d
    ELSE LET keys == SelectSeq(ord.location, LAMBDA r : InRange(u.location, r))
             ranged == RunKeys(t, t.locationRangeHandlersC, keys, 1, d)
         IN  Return(RunList(t, t.handlersC["location"], ranged))

\* The contact loop wraps the registered list at dispatch time.
ContactStage(t, u, d) ==
    IF d.done \/ ~MsgHas(u, "Contact") THEN d
    ELSE Return(RunList(t, wrapMany(t.handlers["contact"]), d))

\* The predicate if it compared the multiple-choice flag for every poll type.
PollMatch_MultipleAlways(poll, pollType) ==
    /\ pollType.Type = "" \/ poll.Type = pollType.Type
    /\ pollType.MinVotes = 0 \/ poll.TotalVoterCount >= pollType.MinVotes
    /\ pollType.IsAnonymous = poll.IsAnonymous
    /\ pollType.AllowMultiple = poll.AllowsMultipleAnswers

PollMatch(poll, pollType) ==
    /\ pollType.Type = "" \/ poll.Type = pollType.Type
    /\ pollType.MinVotes = 0 \/ poll.TotalVoterCount >= pollType.MinVotes
    /\ pollType.IsAnonymous = poll.IsAnonymous
    /\ poll.Type # "regular" \/ pollType.AllowMultiple = poll.AllowsMultipleAnswers

\* The poll stage with the generic handlers run first.
PollStage_GenericFirst(t, u, ord, d) ==
    IF d.done \/ "Poll" \notin u.top THEN d
    ELSE LET keys == SelectSeq(ord.poll, LAMBDA pt : PollMatch(u.poll, pt))
             generic == RunList(t, t.handlersC["poll"], d)
             typed == RunKeys(t, t.pollTypeHandlersC, keys, 1, generic)
         IN  Return(IF u.poll.Type = "quiz"
                    THEN RunList(t, t.handlersC["quiz"], typed)
                    ELSE RunList(t, t.handlersC["regularPoll"], typed))

PollStage(t, u, ord, d) ==
    IF d.done \/ "Poll" \notin u.top THEN d
    ELSE LET keys == SelectSeq(ord.poll, LAMBDA pt : PollMatch(u.poll, pt))
             typed == RunKeys(t, t.pollTypeHandlersC, keys, 1, d)
             kind == IF u.poll.Type = "quiz"
                     THEN RunList(t, t.handlersC["quiz"], typed)
                     ELSE RunList(t, t.handlersC["regularPoll"], typed)
         IN  Return(RunList(t, t.handlersC["poll"], kind))

FileMatch(doc, fileType) ==
    /\ fileType.MimeType = "" \/ doc.MimeType = fileType.MimeType
    /\ fileType.MaxSize = 0 \/ doc.FileSize <= fileType.MaxSize

DocumentTypeStage(t, u, ord, d) ==
    IF d.done \/ ~MsgHas(u, "Document") THEN d
    ELSE LET keys == SelectSeq(ord.document, LAMBDA ft : FileMatch(u.document, ft))
             typed == RunKeys(t, t.documentTypeHandlersC, keys, 1, d)
         IN  Return(RunList(t, t.handlersC["document"], typed))

\* An update with no payload at all.
BlankUpdate ==
    [top |-> {}, msg |-> {}, command |-> "", data |-> <<>>, pollType |-> "",
     poll |-> [Type |-> "", TotalVoterCount |-> 0, IsAnonymous |-> FALSE,
               AllowsMultipleAnswers |-> FALSE],
     location |-> [Latitude |-> 0, Longitude |-> 0, LivePeriod |-> 0],
     document |-> [MimeType |-> "", FileSize |-> 0]]

NewContext ==
    [Update |-> BlankUpdate, index |-> -1, handlers |-> <<>>, aborted |-> FALSE,
     params |-> EmptyMap, query |-> EmptyMap, log |-> <<>>, panicking |-> FALSE]

\* HandleUpdate if the OnUpdate handlers ran after the specific stages.
HandleUpdate_UpdateHandlersLast(t, u, ord) ==
    LET t1 == IF t.composedDirty THEN composeHandlers(t) ELSE t
        d1 == RunChatEvents(t1, u, 1, [c |-> [NewContext EXCEPT !.Update = u],
                                       done |-> FALSE])
        d2 == CommandStage(t1, u, d1)
        d3 == RunStages(t1, u, MessageStages, 1, d2)
        d4 == CallbackStage(t1, u, d3)
        d5 == LocationStage(t1, u, ord, d4)
        d6 == ContactStage(t1, u, d5)
        d7 == PollStage(t1, u, ord, d6)
        d8 == RunStages(t1, u, LateStages, 1, d7)
        d9 == DocumentTypeStage(t1, u, ord, d8)
    IN  [t |-> t1, c |-> RunUpdateHandlers(t1, 1, d9).c]

\* HandleUpdate if the Context were kept from one call to the next.
HandleUpdate_SharedContext(t, u, ord) ==
    LET t1 == IF t.composedDirty THEN composeHandlers(t) ELSE t
        d0 == RunUpdateHandlers(t1, 1, [c |-> [lastC EXCEPT !.Update = u, !.log = <<>>],
                                        done |-> FALSE])
        d1 == RunChatEvents(t1, u, 1, d0)
        d2 == CommandStage(t1, u, d1)
        d3 == RunStages(t1, u, MessageStages, 1, d2)
        d4 == CallbackStage(t1, u, d3)
        d5 == LocationStage(t1, u, ord, d4)
        d6 == ContactStage(t1, u, d5)
        d7 == PollStage(t1, u, ord, d6)
        d8 == RunStages(t1, u, LateStages, 1, d7)
        d9 == DocumentTypeStage(t1, u, ord, d8)
    IN  [t |-> t1, c |-> d9.c]

\* HandleUpdate(update): the router after the call (composition happens
\* here) and the context the call built, as it was left.
HandleUpdate(t, u, ord) ==
    LET t1 == IF t.composedDirty THEN composeHandlers(t) ELSE t
        d0 == RunUpdateHandlers(t1, 1, [c |-> [NewContext EXCEPT !.Update = u],
                                        done |-> FALSE])
        d1 == RunChatEvents(t1, u, 1, d0)
        d2 == CommandStage(t1, u, d1)
        d3 == RunStages(t1, u, MessageStages, 1, d2)
        d4 == CallbackStage(t1, u, d3)
        d5 == LocationStage(t1, u, ord, d4)
        d6 == ContactStage(t1, u, d5)
        d7 == PollStage(t1, u, ord, d6)
        d8 == RunStages(t1, u, LateStages, 1, d7)
        d9 == DocumentTypeStage(t1, u, ord, d8)
    IN  [t |-> t1, c |-> d9.c]

\* ------------------------------------------------------------- registration
\* The bodies of the registered functions that are explored.
Scripts == {<<>>, <<"abort">>, <<"next">>, <<"next", "abort">>}

\* The bodies explored for the functions of a callback route.
RouteScripts == {<<>>, <<"abort">>, <<"next">>}

\* The bodies explored for a function that is the last of its chain.
LastScripts == {<<>>, <<"abort">>}

UserHandler(cat, r, n, script) ==
    [k |-> "user", id |-> [cat |-> cat, r |-> r, n |-> n], script |-> script]

\* The argument lists  handlers ...HandlerFunc  of one registration call: up
\* to maxLen functions, named by the table cat, the entry r of that table
\* they go to, and their position n in it.
HandlerArgs(cat, r, base, maxLen, scripts) ==
    UNION { { [i \in 1..l |-> UserHandler(cat, r, base + i, ss[i])] :
                ss \in [1..l -> scripts] } : l \in 1..maxLen }

\* The predicate keys and callback patterns registrations are made with.
PollTypes ==
    << [Type |-> "quiz", MinVotes |-> 0, IsAnonymous |-> FALSE, AllowMultiple |-> FALSE] >>

Patterns == << <<"a", "/", ":", "i">> >>

\* What every registration call does to the bookkeeping of the model.
Registered(hs) ==
    /\ ~crashed
    /\ nReg + Len(hs) <= MaxHandlers
    /\ nReg' = nReg + Len(hs)
    /\ lastU' = BlankUpdate
    /\ lastC' = NewContext
    /\ UNCHANGED <<listenVars, faultVars, composeVars, prevC>>

Register_Prepend(name, hs) ==
    /\ Registered(hs)
    /\ router' = [router EXCEPT !.handlers[name] = hs \o @,
                                !.composedDirty = TRUE]

\* t.<name>Handlers = append(t.<name>Handlers, handlers...); t.composedDirty = true
Register(name, hs) ==
    /\ Registered(hs)
    /\ router' = [router EXCEPT !.handlers[name] = @ \o hs,
                                !.composedDirty = TRUE]

Use_Prepend(middlewares) ==
    /\ Registered(middlewares)
    /\ router' = [router EXCEPT !.middlewares = middlewares \o @,
                                !.composedDirty = TRUE]

Use(middlewares) ==
    /\ Registered(middlewares)
    /\ router' = [router EXCEPT !.middlewares = @ \o middlewares,
                                !.composedDirty = TRUE]

Text(hs) == Register("text", hs)

Poll(hs) == Register("poll", hs)

OnNewChatTitle(hs) == Register("newChatTitle", hs)

Quiz(hs) == Register("quiz", hs)

RegularPoll(hs) == Register("regularPoll", hs)

PollWithType(pt, hs) ==
    /\ Registered(hs)
    /\ router' = [router EXCEPT
                    !.pollTypeHandlers =
                        MapPut(@, pt, (IF pt \in DOMAIN @ THEN @[pt] ELSE <<>>) \o hs),
                    !.composedDirty = TRUE]

Callback(pattern, hs) ==
    /\ Registered(hs)
    /\ router' = [router EXCEPT
                    !.callbackRoutes =
                        Append(@, [pattern |-> pattern,
                                   handler |-> [k |-> "route", hs |-> hs],
                                   params |-> parseRouteParams(pattern),
                                   regex |-> compileRoutePattern(pattern)]),
                    !.composedDirty = TRUE]

Location(hs) == Register("location", hs)

LiveLocation(hs) == Register("liveLocation", hs)

\* LocationInRange registers, through Location, a closure around handler.
LocationInRange(minLat, maxLat, minLon, maxLon, handler) ==
    Location(<< [k |-> "inRange",
                 range |-> [MinLat |-> minLat, MaxLat |-> maxLat,
                            MinLon |-> minLon, MaxLon |-> maxLon],
                 h |-> handler] >>)

Command(command, hs) ==
    /\ Registered(hs)
    /\ router' = [router EXCEPT
                    !.commandHandlers =
                        MapPut(@, command,
                               (IF command \in DOMAIN @ THEN @[command] ELSE <<>>) \o hs),
                    !.composedDirty = TRUE]

\* CommandRegex returns at once for a nil expression.
CommandRegex(regex, hs) ==
    IF regex.nil
    THEN ~crashed /\ UNCHANGED vars
    ELSE /\ Registered(hs)
         /\ router' = [router EXCEPT
                         !.commandRegexRoutes =
                             Append(@, [regex |-> regex, handlers |-> hs]),
                         !.composedDirty = TRUE]

\* OnUpdate appends one closure over its handlers and leaves composedDirty alone.
OnUpdate(hs) ==
    /\ Registered(hs)
    /\ router' = [router EXCEPT
                    !.updateHandlers = Append(@, [k |-> "update", hs |-> hs])]

\* ----------------------------------------------------------------- dispatch

Perms(S) ==
    { f \in [1..Cardinality(S) -> S] :
        \A i, j \in 1..Cardinality(S) : i # j => f[i] # f[j] }

\* The orders in which one HandleUpdate call may range over the keyed tables.
Orders(t) ==
    [poll : Perms(DOMAIN t.pollTypeHandlersC),
     location : Perms(DOMAIN t.locationRangeHandlersC),
     document : Perms(DOMAIN t.documentTypeHandlersC)]

\* The updates that are dispatched: a text message, a message that is a
\* chat event and carries text, a callback query with a path and a query
\* string, and a quiz poll.
Updates ==
    { [BlankUpdate EXCEPT !.top = {"Message"}, !.msg = {"Text"}],
      [BlankUpdate EXCEPT !.top = {"Message"}, !.msg = {"NewChatTitle", "Text"}],
      [BlankUpdate EXCEPT !.top = {"CallbackQuery"},
                          !.data = <<"a", "/", "1", "?", "k", "=", "v">>],
      [BlankUpdate EXCEPT !.top = {"Poll"}, !.poll.Type = "quiz"] }

\* One call t.HandleUpdate(&u), start to end, on one goroutine.
\* A panic that leaves HandleUpdate ends the process.
HandleUpdateRuns(u) ==
    /\ ~crashed
    /\ \E ord \in Orders(composeHandlers(router)) :
        \E res \in {HandleUpdate(router, u, ord)} :
        /\ router' = res.t
        /\ lastU' = u
        /\ lastC' = res.c
        /\ crashed' = Panicking(res.c)
        /\ UNCHANGED <<nReg, listenVars, panics, composeVars>>

DispatchUpdate(u) == HandleUpdateRuns(u) /\ UNCHANGED prevC

\* The same call, with the context the call before it left kept for
\* comparison.
DispatchAfter(u) == HandleUpdateRuns(u) /\ prevC' = lastC

\* ------------------------------------- composition under concurrent calls
\* Registration calls and HandleUpdate calls on goroutines of their own, one
\* statement at a time, for four of the tables, in the order composeHandlers
\* rebuilds them.  A registration is named by the goroutine that makes it.

ComposedTables == <<"text", "newChatTitle", "callbackRoutes", "commandRegexRoutes">>

\* The registration function of the table takes t.mu.
Locks(tab) == tab \in {"text", "callbackRoutes"}

\* composeHandlers rebuilds the table by appending to the field itself.
BuiltInPlace(tab) == tab \in {"callbackRoutes", "commandRegexRoutes"}

Registrars == 1..MaxRegistrations

Dispatchers == 1..MaxDispatches

Elements(seq) == { seq[i] : i \in 1..Len(seq) }

InitCompose ==
    /\ mu = FALSE
    /\ composedDirty = FALSE
    /\ handlersRaw = [i \in 1..Len(ComposedTables) |-> <<>>]
    /\ handlersC = [i \in 1..Len(ComposedTables) |-> <<>>]
    /\ reg = [r \in Registrars |-> [pc |-> "idle", tab |-> 1]]
    /\ disp = [d \in Dispatchers |->
                 [pc |-> "idle", seen |-> {}, at |-> 1, rng |-> <<>>, missed |-> FALSE]]
    /\ returned = {}

ComposeFrame == UNCHANGED <<listenVars, faultVars, callVars>>

\* A registration function is called for table number tab.
RegisterCall(r, tab) ==
    /\ reg[r].pc = "idle"
    /\ reg' = [reg EXCEPT ![r] = [pc |-> IF Locks(ComposedTables[tab]) THEN "lock" ELSE "append",
                                  tab |-> tab]]
    /\ UNCHANGED <<mu, composedDirty, handlersRaw, handlersC, disp, returned>>
    /\ ComposeFrame

\* t.mu.Lock()
RegisterLock(r) ==
    /\ reg[r].pc = "lock"
    /\ ~mu
    /\ mu' = TRUE
    /\ reg' = [reg EXCEPT ![r].pc = "append"]
    /\ UNCHANGED <<composedDirty, handlersRaw, handlersC, disp, returned>>
    /\ ComposeFrame

\* t.<table> = append(t.<table>, ...)
RegisterAppend(r) ==
    /\ reg[r].pc = "append"
    /\ handlersRaw' = [handlersRaw EXCEPT ![reg[r].tab] = Append(@, r)]
    /\ reg' = [reg EXCEPT ![r].pc = "dirty"]
    /\ UNCHANGED <<mu, composedDirty, handlersC, disp, returned>>
    /\ ComposeFrame

\* t.composedDirty = true, and the return of the functions that take no lock.
RegisterDirty(r) ==
    /\ reg[r].pc = "dirty"
    /\ composedDirty' = TRUE
    /\ IF Locks(ComposedTables[reg[r].tab])
       THEN /\ reg' = [reg EXCEPT ![r].pc = "unlock"]
            /\ UNCHANGED returned
       ELSE /\ reg' = [reg EXCEPT ![r].pc = "done"]
            /\ returned' = returned \cup {r}
    /\ UNCHANGED <<mu, handlersRaw, handlersC, disp>>
    /\ ComposeFrame

\* t.mu.Unlock() and the return.
RegisterUnlock(r) ==
    /\ reg[r].pc = "unlock"
    /\ mu' = FALSE
    /\ reg' = [reg EXCEPT ![r].pc = "done"]
    /\ returned' = returned \cup {r}
    /\ UNCHANGED <<composedDirty, handlersRaw, handlersC, disp>>
    /\ ComposeFrame

\* HandleUpdate is called:  if t.composedDirty { t.composeHandlers() }
HandleUpdateCall(d) ==
    /\ disp[d].pc = "idle"
    /\ disp' = [disp EXCEPT ![d].pc = IF composedDirty THEN "compose" ELSE "use",
                            ![d].seen = returned]
    /\ UNCHANGED <<mu, composedDirty, handlersRaw, handlersC, reg, returned>>
    /\ ComposeFrame

\* composeHandlers:  if !t.composedDirty { return }
ComposeEnter(d) ==
    /\ disp[d].pc = "compose"
    /\ disp' = [disp EXCEPT ![d].pc = IF composedDirty THEN "lock" ELSE "use"]
    /\ UNCHANGED <<mu, composedDirty, handlersRaw, handlersC, reg, returned>>
    /\ ComposeFrame

\* t.mu.Lock()
ComposeLock(d) ==
    /\ disp[d].pc = "lock"
    /\ ~mu
    /\ mu' = TRUE
    /\ disp' = [disp EXCEPT ![d].pc = "wrap", ![d].at = 1]
    /\ UNCHANGED <<composedDirty, handlersRaw, handlersC, reg, returned>>
    /\ ComposeFrame

\* The next table: t.<table>C = wrapMany(t.<table>), or, for a table built
\* in place, the fresh slice and the start of the range loop.
ComposeTable(d) ==
    /\ disp[d].pc = "wrap"
    /\ disp[d].at <= Len(ComposedTables)
    /\ IF BuiltInPlace(ComposedTables[disp[d].at])
       THEN /\ handlersC' = [handlersC EXCEPT ![disp[d].at] = <<>>]
            /\ disp' = [disp EXCEPT ![d].pc = "range",
                                    ![d].rng = handlersRaw[disp[d].at]]
       ELSE /\ handlersC' = [handlersC EXCEPT ![disp[d].at] = handlersRaw[disp[d].at]]
            /\ disp' = [disp EXCEPT ![d].at = @ + 1]
    /\ UNCHANGED <<mu, composedDirty, handlersRaw, reg, returned>>
    /\ ComposeFrame

\* One turn of  for _, r := range t.<table> { t.<table>C = append(t.<table>C, ...) }
ComposeAppend(d) ==
    /\ disp[d].pc = "range"
    /\ IF disp[d].rng = <<>>
       THEN /\ disp' = [disp EXCEPT ![d].pc = "wrap", ![d].at = @ + 1]
            /\ UNCHANGED handlersC
       ELSE /\ handlersC' = [handlersC EXCEPT ![disp[d].at] = Append(@, Head(disp[d].rng))]
            /\ disp' = [disp EXCEPT ![d].rng = Tail(@)]
    /\ UNCHANGED <<mu, composedDirty, handlersRaw, reg, returned>>
    /\ ComposeFrame

\* t.composedDirty = false, and the deferred t.mu.Unlock()
ComposeDone(d) ==
    /\ disp[d].pc = "wrap"
    /\ disp[d].at > Len(ComposedTables)
    /\ composedDirty' = FALSE
    /\ mu' = FALSE
    /\ disp' = [disp EXCEPT ![d].pc = "use"]
    /\ UNCHANGED <<handlersRaw, handlersC, reg, returned>>
    /\ ComposeFrame

\* The registrations of seen that the composed tables do not hold.
Missing(seen) ==
    { r \in seen : r \notin Elements(handlersC[reg[r].tab]) }

\* The dispatch reads the composed tables.
UseTables(d) ==
    /\ disp[d].pc = "use"
    /\ disp' = [disp EXCEPT ![d].pc = "done", ![d].missed = Missing(disp[d].seen) # {}]
    /\ UNCHANGED <<mu, composedDirty, handlersRaw, handlersC, reg, returned>>
    /\ ComposeFrame

NextCompose ==
    \/ \E r \in Registrars, tab \in 1..Len(ComposedTables) : RegisterCall(r, tab)
    \/ \E r \in Registrars : RegisterLock(r)
    \/ \E r \in Registrars : RegisterAppend(r)
    \/ \E r \in Registrars : RegisterDirty(r)
    \/ \E r \in Registrars : RegisterUnlock(r)
    \/ \E d \in Dispatchers : HandleUpdateCall(d)
    \/ \E d \in Dispatchers : ComposeEnter(d)
    \/ \E d \in Dispatchers : ComposeLock(d)
    \/ \E d \in Dispatchers : ComposeTable(d)
    \/ \E d \in Dispatchers : ComposeAppend(d)
    \/ \E d \in Dispatchers : ComposeDone(d)
    \/ \E d \in Dispatchers : UseTables(d)

InitRouter ==
    /\ router = NewTelegramRouter
    /\ nReg = 0
    /\ lastU = BlankUpdate
    /\ lastC = NewContext
    /\ prevC = NewContext
    /\ InitCompose

\* ==================================================================
\* Specifications
\* ==================================================================

\* No dispatch panics.
NoFaults == panics = {} /\ crashed = FALSE

Init == InitListen /\ InitRouter /\ NoFaults

Next ==
    \/ \E nw \in 1..MaxWorkers, qs \in 1..MaxQueue : ListenStart(nw, qs)
    \/ Cancel
    \/ SourceDeliver
    \/ SourceClose
    \/ DrainCtxExpire
    \/ Producer
    \/ \E w \in Workers : WorkerReceive(w)
    \/ \E w \in Workers : WorkerHandled(w)
    \/ \E w \in Workers : WorkerExit(w)
    \/ MainCloseJobs
    \/ MainReturn

Spec == Init /\ [][Next]_vars

\* The goroutines are scheduled and time passes: every step of the producer,
\* of a worker and of the caller's goroutine that stays possible is taken, and
\* the drain budget expires.  The environment (Cancel, the source) owes nothing.
Fairness ==
    /\ WF_vars(Producer)
    /\ WF_vars(DrainCtxExpire)
    /\ \A w \in Workers : WF_vars(WorkerReceive(w))
    /\ \A w \in Workers : WF_vars(WorkerHandled(w))
    /\ \A w \in Workers : WF_vars(WorkerExit(w))
    /\ WF_vars(MainCloseJobs)
    /\ WF_vars(MainReturn)

LiveSpec == Init /\ [][Next]_vars /\ Fairness

\* The pipeline when the dispatch of one update panics and no middleware
\* recovers.  A process that was ended takes no step.
InitPanic ==
    /\ InitListen /\ stalls = {} /\ InitRouter
    /\ panics \in {{u} : u \in Ids}
    /\ crashed = FALSE

NextPanic ==
    \/ ~crashed /\ \E nw \in 1..MaxWorkers, qs \in 1..MaxQueue : ListenStart(nw, qs)
    \/ ~crashed /\ Cancel
    \/ ~crashed /\ SourceDeliver
    \/ ~crashed /\ SourceClose
    \/ ~crashed /\ DrainCtxExpire
    \/ ~crashed /\ Producer
    \/ ~crashed /\ \E w \in Workers : WorkerReceive(w)
    \/ ~crashed /\ \E w \in Workers : WorkerHandled(w)
    \/ ~crashed /\ \E w \in Workers : WorkerPanic(w)
    \/ ~crashed /\ \E w \in Workers : WorkerExit(w)
    \/ ~crashed /\ MainCloseJobs
    \/ ~crashed /\ MainReturn

FairnessPanic ==
    /\ WF_vars(~crashed /\ Producer)
    /\ WF_vars(~crashed /\ DrainCtxExpire)
    /\ \A w \in Workers : WF_vars(~crashed /\ WorkerReceive(w))
    /\ \A w \in Workers : WF_vars(~crashed /\ WorkerHandled(w))
    /\ \A w \in Workers : WF_vars(~crashed /\ WorkerPanic(w))
    /\ \A w \in Workers : WF_vars(~crashed /\ WorkerExit(w))
    /\ WF_vars(~crashed /\ MainCloseJobs)
    /\ WF_vars(~crashed /\ MainReturn)

LiveSpecPanic == InitPanic /\ [][NextPanic]_vars /\ FairnessPanic

\* ======================================================= ingestion pipeline

InJobs(u) == \E i \in 1..Len(jobs) : jobs[i] = u
Delivered == 1..(nextId - 1)
AllWorkersExited == \A w \in Workers : Active(w) => wpc[w] = "exited"
Running == mainPc \notin {"idle", "returned"}

\* C2: no update is ever dispatched twice or by two workers, and when
\* ListenWithContext returns from a run in which ctx was not cancelled before
\* the producer left, every update the source delivered (all MaxUpdates of them)
\* has been dispatched exactly once, whatever workers and queueSize are.
C2_ExactlyOnce ==
    /\ \A u \in Ids : nDispatch[u] <= 1
    /\ \A v, w \in Workers : (v # w /\ cur[v] # 0) => cur[v] # cur[w]
    /\ (mainPc = "returned" /\ ~cancelBeforeExit) =>
          /\ Delivered = 1..MaxUpdates
          /\ \A u \in Delivered : nDispatch[u] = 1 /\ u \in completed

\* A run without cancellation, over two workers and a queue of one slot, that
\* has returned with every update dispatched.
C2_Witness ==
    /\ mainPc = "returned"
    /\ ~ctxDone
    /\ workers = 2
    /\ queueSize = 1
    /\ completed = Ids

\* C3: an update that was sent on jobs is in jobs or has been dispatched, and
\* once the workers have exited every such update has been dispatched and its
\* dispatch has returned, also when ctx was cancelled while it was queued.
C3_EnqueuedIsDispatched ==
    /\ \A u \in enqueued : InJobs(u) \/ nDispatch[u] >= 1
    /\ (mainPc \in {"wg_wait", "returned"} /\ AllWorkersExited) =>
          \A u \in enqueued : nDispatch[u] >= 1 /\ u \in completed

\* ListenWithContext returned after a cancellation that found updates queued.
C3_Witness ==
    /\ mainPc = "returned"
    /\ queuedAtCancel # {}
    /\ queuedAtCancel \subseteq completed

\* C4 (as claimed): when ctx is cancelled before the producer exits, the
\* producer has called StopReceivingUpdates by the time it has exited.
C4_SourceStoppedOnCancel ==
    (prodPc = "exited" /\ cancelBeforeExit) => srcStopped > 0

\* C5 (as claimed): an update the producer holds is given up only when a
\* drain budget (2 s per item, 5 s overall) ran out with jobs still full;
\* never because ctx was cancelled, and never while jobs has room.
C5_InFlightGetsBudget ==
    \A d \in dropLog : d.cause \in {"item_budget", "drain_budget"} /\ d.full

\* C6: once ctx is cancelled while ListenWithContext runs, the producer
\* exits (whatever the queue and the source do), and if no handler stalls the
\* queue is closed, the workers exit and ListenWithContext returns.
C6_ShutdownTerminates ==
    /\ (ctxDone /\ Running) ~> (prodPc = "exited")
    /\ (ctxDone /\ Running /\ stalls = {}) ~> (mainPc = "returned")

\* The producer left the drain on its budget, having dropped an update on a
\* full queue, and ListenWithContext returned.
C6_Witness ==
    /\ mainPc = "returned"
    /\ prodExit = "drain_timeout"
    /\ \E d \in dropLog : d.full

\* C7: when ListenWithContext has returned every worker has exited and
\* holds no update, and no HandleUpdate call starts from then on.
C7_NoDispatchAfterStopped ==
    /\ [](mainPc = "returned" =>
            \A w \in Workers : Active(w) => wpc[w] = "exited" /\ cur[w] = 0)
    /\ [][mainPc = "returned" => nDispatch' = nDispatch]_vars

\* ListenWithContext returned after its workers dispatched something.
C7_Witness == mainPc = "returned" /\ completed # {} /\ jobsClosed = 1

PhaseRank(p) ==
    CASE p = "Idle" -> 0 [] p = "Running" -> 1 [] p = "Draining" -> 2
      [] p = "Stopped" -> 3

CancelExits == {"enqueue_canceled", "drain_source_closed", "drain_timeout"}

\* C8 (as claimed): the phases are entered in the order Idle, Running,
\* Draining, Stopped, none twice, and a shutdown that the cancellation of ctx
\* triggered has been through Draining by the time it is Stopped.
C8_PhaseOrder ==
    /\ \A i, j \in 1..Len(phaseLog) :
          i < j => PhaseRank(phaseLog[i]) < PhaseRank(phaseLog[j])
    /\ (mainPc = "returned" /\ prodExit \in CancelExits) =>
          \E i \in 1..Len(phaseLog) : phaseLog[i] = "Draining"

\* C9: a worker that has exited found jobs closed and empty; while jobs is
\* open or holds an update no worker has exited, cancelled or not.
C9_WorkerExitsOnClosedEmpty ==
    \A w \in Workers : wpc[w] = "exited" => jobsClosed > 0 /\ jobs = <<>>

\* A worker exited in a run whose cancellation found updates queued.
C9_Witness ==
    /\ \E w \in Workers : wpc[w] = "exited"
    /\ ctxDone
    /\ queuedAtCancel # {}

\* C10: with two or more workers and one handler that never returns, every
\* other update that is sent on jobs is dispatched to completion, and an
\* update the producer holds is sent on jobs unless ctx is cancelled.
C10_StallIsLocal ==
    \A u \in Ids :
        /\ (workers >= 2 /\ u \in enqueued /\ u \notin stalls) ~> (u \in completed)
        /\ (workers >= 2 /\ prodPc = "enqueue" /\ pu = u) ~>
              (u \in enqueued \/ ctxDone)

\* One worker is inside the handler that never returns while an update that
\* was queued behind it has been dispatched to completion.
C10_Witness ==
    \E w \in Workers, u \in Ids :
        /\ wpc[w] = "handling"
        /\ cur[w] \in stalls
        /\ u > cur[w]
        /\ u \in completed

\* C11: a panic that no middleware recovers, raised by the dispatch of one
\* update in one worker, leaves the sibling workers running: an update that
\* another worker is dispatching, and whose handlers return, is completed.
C11_SiblingsSurvivePanic ==
    \A u \in Ids :
        (u \notin panics /\ \E w \in Workers : wpc[w] = "handling" /\ cur[w] = u)
            ~> (u \in completed)

\* The setup code registers handlers, and updates are dispatched one call at
\* a time.
InitDispatch == InitListen /\ stalls = {} /\ InitRouter /\ NoFaults

NextDispatch ==
    \/ \E hs \in HandlerArgs("mw", 0, Len(router.middlewares), 1, Scripts) : Use(hs)
    \/ \E hs \in HandlerArgs("update", Len(router.updateHandlers) + 1, 0, 1, Scripts) :
          OnUpdate(hs)
    \/ \E hs \in HandlerArgs("newChatTitle", 0, Len(router.handlers["newChatTitle"]), 1, LastScripts) :
          OnNewChatTitle(hs)
    \/ \E hs \in HandlerArgs("text", 0, Len(router.handlers["text"]), 1, LastScripts) : Text(hs)
    \/ \E i \in 1..Len(Patterns) :
          \E hs \in HandlerArgs("callbackRoute", Len(router.callbackRoutes) + 1, 0, 2, RouteScripts) :
              Callback(Patterns[i], hs)
    \/ \E i \in 1..Len(PollTypes) :
          \E hs \in HandlerArgs("pollType", i,
                                IF PollTypes[i] \in DOMAIN router.pollTypeHandlers
                                THEN Len(router.pollTypeHandlers[PollTypes[i]])
                                ELSE 0, 1, LastScripts) :
              PollWithType(PollTypes[i], hs)
    \/ \E hs \in HandlerArgs("poll", 0, Len(router.handlers["poll"]), 1, LastScripts) : Poll(hs)
    \/ \E u \in Updates : DispatchUpdate(u)

SpecDispatch == InitDispatch /\ [][NextDispatch]_vars

\* ================================================================= dispatch

\* C1: on the context of a HandleUpdate call, once a handler or middleware
\* has called Abort(), no registered function is entered any more: not the
\* rest of its chain, not the rest of its category, not a later category.
C1_NoHandlerStartsAfterAbort ==
    \A i, j \in 1..Len(lastC.log) :
        (i < j /\ lastC.log[i].ev = "abort") => lastC.log[j].ev # "enter"

\* An aborted dispatch on a router where another function was still to come.
C1_Witness ==
    /\ lastC.aborted
    /\ \E i \in 1..Len(lastC.log) : lastC.log[i].ev = "abort"
    /\ Cardinality({ i \in 1..Len(lastC.log) : lastC.log[i].ev = "enter" }) < nReg

\* ------------------------------------------------------------ Recover first
\* NewTelegramRouterWithDefaultRecover: tr.Use(Recover) on a new router.
RecoverMw == [k |-> "recover", id |-> [cat |-> "mw", r |-> 0, n |-> 1]]

NewTelegramRouterWithDefaultRecover ==
    [NewTelegramRouter EXCEPT !.middlewares = <<RecoverMw>>,
                              !.composedDirty = TRUE]

\* The bodies explored for functions that may panic.
FaultScripts == {<<>>, <<"next">>, <<"panic">>, <<"next", "panic">>}

LastFaultScripts == {<<>>, <<"panic">>}

InitRecover ==
    /\ InitListen /\ stalls = {} /\ NoFaults /\ InitCompose
    /\ router = NewTelegramRouterWithDefaultRecover
    /\ nReg = 0
    /\ lastU = BlankUpdate
    /\ lastC = NewContext
    /\ prevC = NewContext

NextRecover ==
    \/ \E hs \in HandlerArgs("mw", 0, Len(router.middlewares), 1, FaultScripts) : Use(hs)
    \/ \E hs \in HandlerArgs("update", Len(router.updateHandlers) + 1, 0, 1, LastFaultScripts) :
          OnUpdate(hs)
    \/ \E hs \in HandlerArgs("newChatTitle", 0, Len(router.handlers["newChatTitle"]), 1,
                             LastFaultScripts) : OnNewChatTitle(hs)
    \/ \E hs \in HandlerArgs("text", 0, Len(router.handlers["text"]), 1, LastFaultScripts) :
          Text(hs)
    \/ \E hs \in HandlerArgs("callbackRoute", Len(router.callbackRoutes) + 1, 0, 2,
                             LastFaultScripts) : Callback(Patterns[1], hs)
    \/ \E u \in Updates : DispatchUpdate(u)

SpecRecover == InitRecover /\ [][NextRecover]_vars

\* C12: with Recover as the first middleware, a panic of a later middleware
\* or of a handler stays inside the dispatch: HandleUpdate returns (the
\* process lives on), the context is aborted, and no function is entered
\* after the panic.
C12_RecoverContainsPanic ==
    /\ ~crashed
    /\ ~Panicking(lastC)
    /\ \A i \in 1..Len(lastC.log) :
          lastC.log[i].ev = "panic" =>
              /\ IsAborted(lastC)
              /\ \A j \in (i + 1)..Len(lastC.log) : lastC.log[j].ev # "enter"

\* A handler behind a second middleware panicked with more handlers to come.
C12_Witness ==
    /\ \E i \in 1..Len(lastC.log) :
          lastC.log[i].ev = "panic" /\ lastC.log[i].cat # "mw"
    /\ Len(router.middlewares) >= 2
    /\ Cardinality({ i \in 1..Len(lastC.log) : lastC.log[i].ev = "enter" }) < nReg + 1
    /\ ~crashed

\* ----------------------------------------------------- middleware and order

\* The middleware entered by event e of the latest dispatch returns without
\* calling Next() and without calling Abort().
SilentMiddleware(e) ==
    /\ e.ev = "enter" /\ e.cat = "mw"
    /\ router.middlewares[e.n].k = "user"
    /\ router.middlewares[e.n].script = <<>>

\* C13: when a middleware returns without calling Next() and without
\* Abort(), the rest of that chain does not run: what is entered next, if
\* anything, is the first middleware of another chain.
C13_NoNextStopsChain ==
    \A i \in 1..Len(lastC.log) :
        (SilentMiddleware(lastC.log[i]) /\ i + 2 <= Len(lastC.log)) =>
            ~ /\ lastC.log[i + 2].ev = "enter"
              /\ \/ lastC.log[i + 2].cat # "mw"
                 \/ lastC.log[i + 2].n > lastC.log[i].n

\* The middleware entered before event j of the latest dispatch, by their
\* position in the order of the Use() calls.
MiddlewareEnteredBefore(j) ==
    LET before == SubSeq(lastC.log, 1, j - 1)
        enters == SelectSeq(before, LAMBDA e : e.ev = "enter" /\ e.cat = "mw")
    IN  [i \in 1..Len(enters) |-> enters[i].n]

NextText ==
    \/ \E hs \in HandlerArgs("mw", 0, Len(router.middlewares), 1, Scripts) : Use(hs)
    \/ \E hs \in HandlerArgs("text", 0, Len(router.handlers["text"]), 2, RouteScripts) :
          Text(hs)
    \/ \E u \in Updates : DispatchUpdate(u)

SpecText == InitDispatch /\ [][NextText]_vars

\* The handlers of table cat entered by the latest dispatch, in the order
\* they were entered, each by its position in the registration order.
EnteredOf(cat) ==
    LET enters == SelectSeq(lastC.log, LAMBDA e : e.ev = "enter" /\ e.cat = cat)
    IN  [i \in 1..Len(enters) |-> enters[i].n]

\* C15: the handlers of the selected category run in the order they were
\* registered, over several calls and within one call: the k-th handler
\* entered is the k-th registered, and unless the dispatch was aborted all
\* of them are entered.
C15_RegistrationOrder ==
    MsgHas(lastU, "Text") =>
        /\ \A i \in 1..Len(EnteredOf("text")) : EnteredOf("text")[i] = i
        /\ ~IsAborted(lastC) => Len(EnteredOf("text")) = Len(router.handlers["text"])

\* Three text handlers, registered by more than one call, all ran.
C15_Witness ==
    /\ MsgHas(lastU, "Text")
    /\ Len(EnteredOf("text")) = 3
    /\ ~IsAborted(lastC)

\* ------------------------------------------------------------ callback routes
\* Three patterns and the callback queries sent against them:
\* "a/:i" and "*" match the subject "a/1", "*" and "b" match the subject "b".
PatternA == <<"a", "/", ":", "i">>
PatternAny == <<"*">>
PatternB == <<"b">>

CallbackPatterns == <<PatternA, PatternAny, PatternB>>

SubjectA == <<"a", "/", "1">>
SubjectB == <<"b">>

CallbackUpdates ==
    { [BlankUpdate EXCEPT !.top = {"CallbackQuery"}, !.data = SubjectA],
      [BlankUpdate EXCEPT !.top = {"CallbackQuery"},
                          !.data = SubjectA \o <<"?", "k", "=", "v">>],
      [BlankUpdate EXCEPT !.top = {"CallbackQuery"}, !.data = SubjectB] }

NextCallback ==
    \/ \E hs \in HandlerArgs("mw", 0, Len(router.middlewares), 1, Scripts) : Use(hs)
    \/ \E i \in 1..Len(CallbackPatterns) :
          \E hs \in HandlerArgs("callbackRoute", Len(router.callbackRoutes) + 1, 0, 1,
                                RouteScripts) :
              Callback(CallbackPatterns[i], hs)
    \/ \E u \in CallbackUpdates : DispatchUpdate(u)

SpecCallback == InitDispatch /\ [][NextCallback]_vars

\* The subject of a callback query: its data up to the first '?'.
SubjectOf(u) ==
    IF Index(u.data, "?") = 0 THEN u.data
    ELSE SubSeq(u.data, 1, Index(u.data, "?") - 1)

\* Which of the three patterns matches which subject.
PatternMatches(pattern, subject) ==
    \/ pattern = PatternAny
    \/ pattern = PatternA /\ subject = SubjectA
    \/ pattern = PatternB /\ subject = SubjectB

\* The registered routes that match the subject, in registration order.
MatchingRoutes(subject) ==
    LET idx == [i \in 1..Len(router.callbackRoutes) |-> i]
    IN  SelectSeq(idx, LAMBDA i : PatternMatches(router.callbackRoutes[i].pattern, subject))

\* The routes whose handler the latest dispatch entered, in that order.
RoutesEntered ==
    LET enters == SelectSeq(lastC.log,
                            LAMBDA e : e.ev = "enter" /\ e.cat = "callbackRoute")
    IN  [i \in 1..Len(enters) |-> enters[i].r]

\* C16: for a callback query the routes are tried in registration order and
\* every route that matches the subject runs, not just the first: the routes
\* entered are the matching routes in order, all of them unless the dispatch
\* was aborted.
C16_EveryMatchingRouteRuns ==
    "CallbackQuery" \in lastU.top =>
        LET m == MatchingRoutes(SubjectOf(lastU))
            e == RoutesEntered
        IN  /\ Len(e) <= Len(m)
            /\ \A i \in 1..Len(e) : e[i] = m[i]
            /\ ~IsAborted(lastC) => Len(e) = Len(m)

\* Two routes matched and ran, around one that did not match.
C16_Witness ==
    /\ "CallbackQuery" \in lastU.top
    /\ Len(RoutesEntered) >= 2
    /\ Len(MatchingRoutes(SubjectOf(lastU))) < Len(router.callbackRoutes)

\* ------------------------------------------------------------------ locations
\* The location messages dispatched are at latitude 1, longitude 1.  The
\* first two ranges contain that point (the second with it on its border),
\* the third does not.
Ranges ==
    << [MinLat |-> 0, MaxLat |-> 2, MinLon |-> 0, MaxLon |-> 2],
       [MinLat |-> 1, MaxLat |-> 1, MinLon |-> 1, MaxLon |-> 3],
       [MinLat |-> 2, MaxLat |-> 3, MinLon |-> 0, MaxLon |-> 2] >>

Containing == {1, 2}

LocationUpdates ==
    { [BlankUpdate EXCEPT !.top = {"Message"}, !.msg = {"Location"},
                          !.location = [Latitude |-> 1, Longitude |-> 1, LivePeriod |-> 0]],
      [BlankUpdate EXCEPT !.top = {"Message"}, !.msg = {"Location"},
                          !.location = [Latitude |-> 1, Longitude |-> 1, LivePeriod |-> 1]] }

NextLocation ==
    \/ \E i \in 1..Len(Ranges) :
          \E hs \in HandlerArgs("locationInRange", i, Len(router.handlers["location"]), 1,
                                LastScripts) :
              LocationInRange(Ranges[i].MinLat, Ranges[i].MaxLat,
                              Ranges[i].MinLon, Ranges[i].MaxLon, hs[1])
    \/ \E hs \in HandlerArgs("location", 0, Len(router.handlers["location"]), 1, LastScripts) :
          Location(hs)
    \/ \E hs \in HandlerArgs("liveLocation", 0, Len(router.handlers["liveLocation"]), 1,
                             LastScripts) : LiveLocation(hs)
    \/ \E u \in LocationUpdates : DispatchUpdate(u)

SpecLocation == InitDispatch /\ [][NextLocation]_vars

\* The events of the latest dispatch that enter a handler of table cat.
EnterEvents(cat) ==
    { i \in 1..Len(lastC.log) : lastC.log[i].ev = "enter" /\ lastC.log[i].cat = cat }

\* The positions, in the location list, of the range matchers registered for
\* range number i of Ranges.
RangeMatchers(i) ==
    { n \in 1..Len(router.handlers["location"]) :
        /\ router.handlers["location"][n].k = "inRange"
        /\ router.handlers["location"][n].h.id.r = i }

\* C17: a location message runs the handler of every range matcher whose
\* range, bounds included, contains its coordinate (unless a handler
\* aborts), and of no range matcher whose range does not contain it.
C17_EveryContainingRangeRuns ==
    MsgHas(lastU, "Location") =>
        /\ \A i \in EnterEvents("locationInRange") : lastC.log[i].r \in Containing
        /\ ~IsAborted(lastC) =>
              \A r \in Containing : \A n \in RangeMatchers(r) :
                  \E i \in EnterEvents("locationInRange") : lastC.log[i].n = n

\* Both containing ranges ran while a matcher of the third range is registered.
C17_Witness ==
    /\ MsgHas(lastU, "Location")
    /\ \A r \in Containing :
          \E i \in EnterEvents("locationInRange") : lastC.log[i].r = r
    /\ RangeMatchers(3) # {}

\* C18: a location message with a live period runs the LiveLocation handlers
\* as well as the Location handlers (unless a handler aborts).
C18_LiveLocationAlsoRuns ==
    (MsgHas(lastU, "Location") /\ lastU.location.LivePeriod > 0 /\ ~IsAborted(lastC)) =>
        /\ Cardinality(EnterEvents("liveLocation")) = Len(router.handlers["liveLocation"])
        /\ Cardinality(EnterEvents("location")) =
              Cardinality({ n \in 1..Len(router.handlers["location"]) :
                              router.handlers["location"][n].k = "user" })

\* ---------------------------------------------------------------------- polls
\* A quiz poll and a regular poll (two votes, several answers allowed), and
\* three predicate keys: the first holds for the quiz poll only, the second
\* for both polls, the third (at least three votes) for neither.
PollKeys ==
    << [Type |-> "quiz", MinVotes |-> 0, IsAnonymous |-> FALSE, AllowMultiple |-> FALSE],
       [Type |-> "", MinVotes |-> 0, IsAnonymous |-> FALSE, AllowMultiple |-> TRUE],
       [Type |-> "regular", MinVotes |-> 3, IsAnonymous |-> FALSE, AllowMultiple |-> TRUE] >>

QuizPoll == [BlankUpdate EXCEPT !.top = {"Poll"}, !.poll.Type = "quiz"]

RegularPollUpdate ==
    [BlankUpdate EXCEPT !.top = {"Poll"},
                        !.poll = [Type |-> "regular", TotalVoterCount |-> 2,
                                  IsAnonymous |-> FALSE, AllowsMultipleAnswers |-> TRUE]]

KeysHolding(u) == IF u = QuizPoll THEN {1, 2} ELSE {2}

NextPoll ==
    \/ \E i \in 1..Len(PollKeys) :
          \E hs \in HandlerArgs("pollType", i,
                                IF PollKeys[i] \in DOMAIN router.pollTypeHandlers
                                THEN Len(router.pollTypeHandlers[PollKeys[i]])
                                ELSE 0, 1, LastScripts) :
              PollWithType(PollKeys[i], hs)
    \/ \E hs \in HandlerArgs("quiz", 0, Len(router.handlers["quiz"]), 1, LastScripts) :
          Quiz(hs)
    \/ \E hs \in HandlerArgs("regularPoll", 0, Len(router.handlers["regularPoll"]), 1,
                             LastScripts) : RegularPoll(hs)
    \/ \E hs \in HandlerArgs("poll", 0, Len(router.handlers["poll"]), 1, LastScripts) :
          Poll(hs)
    \/ \E u \in {QuizPoll, RegularPollUpdate} : DispatchUpdate(u)

SpecPoll == InitDispatch /\ [][NextPoll]_vars

\* The layer of the poll stage a handler table belongs to.
PollLayer(cat) ==
    CASE cat = "pollType" -> 1
      [] cat \in {"quiz", "regularPoll"} -> 2
      [] cat = "poll" -> 3
      [] OTHER -> 0

\* The handlers registered under the predicate keys that hold for u: key and
\* position.
HoldingHandlers(u) ==
    { <<k, n>> \in (1..Len(PollKeys)) \X (1..MaxHandlers + 1) :
        /\ k \in KeysHolding(u)
        /\ PollKeys[k] \in DOMAIN router.pollTypeHandlers
        /\ n <= Len(router.pollTypeHandlers[PollKeys[k]]) }

\* C19: a poll update runs the handlers of the predicate keys that hold,
\* then the Quiz handlers (quiz poll) or else the RegularPoll handlers, then
\* the Poll handlers: never a layer before an earlier one, never a key that
\* does not hold or the other kind, and every handler of the three layers
\* unless the dispatch is aborted.
C19_PollLayers ==
    "Poll" \in lastU.top =>
        LET log == lastC.log
            kind == IF lastU.poll.Type = "quiz" THEN "quiz" ELSE "regularPoll"
        IN  /\ \A i, j \in 1..Len(log) :
                  (i < j /\ log[i].ev = "enter" /\ log[j].ev = "enter") =>
                      PollLayer(log[i].cat) <= PollLayer(log[j].cat)
            /\ \A i \in EnterEvents("pollType") : log[i].r \in KeysHolding(lastU)
            /\ EnterEvents(IF kind = "quiz" THEN "regularPoll" ELSE "quiz") = {}
            /\ ~IsAborted(lastC) =>
                  /\ \A kn \in HoldingHandlers(lastU) :
                        \E i \in EnterEvents("pollType") :
                            log[i].r = kn[1] /\ log[i].n = kn[2]
                  /\ Cardinality(EnterEvents(kind)) = Len(router.handlers[kind])
                  /\ Cardinality(EnterEvents("poll")) = Len(router.handlers["poll"])

\* The three layers ran for a quiz poll.
C19_Witness ==
    /\ lastU = QuizPoll
    /\ EnterEvents("pollType") # {}
    /\ EnterEvents("quiz") # {}
    /\ EnterEvents("poll") # {}

\* ------------------------------------------------------------------- commands
\* Command messages /start, /stop and /help; handlers under the exact names
\* start and help; expressions matching start and stop, every command, and a
\* nil expression.
CommandNames == <<"start", "help">>

CommandRegexes ==
    << [nil |-> FALSE, lang |-> {"start", "stop"}],
       [nil |-> FALSE, lang |-> {"start", "stop", "help"}],
       [nil |-> TRUE, lang |-> {}] >>

CommandUpdates ==
    { [BlankUpdate EXCEPT !.top = {"Message"}, !.msg = {"IsCommand", "Text"},
                          !.command = cmd] : cmd \in {"start", "stop", "help"} }

NextCommand ==
    \/ \E i \in 1..Len(CommandNames) :
          \E hs \in HandlerArgs("command", i,
                                IF CommandNames[i] \in DOMAIN router.commandHandlers
                                THEN Len(router.commandHandlers[CommandNames[i]])
                                ELSE 0, 1, LastScripts) :
              Command(CommandNames[i], hs)
    \/ \E i \in 1..Len(CommandRegexes) :
          \E hs \in HandlerArgs("commandRegex", Len(router.commandRegexRoutes) + 1, 0, 2,
                                LastScripts) :
              CommandRegex(CommandRegexes[i], hs)
    \/ \E u \in CommandUpdates : DispatchUpdate(u)

SpecCommand == InitDispatch /\ [][NextCommand]_vars

\* The regex routes, by position, whose expression matches cmd.
RegexRoutesMatching(cmd) ==
    { i \in 1..Len(router.commandRegexRoutes) :
        cmd \in router.commandRegexRoutes[i].regex.lang }

\* C20: a command with handlers under its exact name runs exactly those and
\* no regex route; any other command runs the handlers of the first regex
\* route, in registration order, that matches it, and of no other route.
C20_ExactThenFirstRegex ==
    MsgHas(lastU, "IsCommand") =>
        LET log == lastC.log
            cmd == lastU.command
            first == CHOOSE i \in RegexRoutesMatching(cmd) :
                         \A j \in RegexRoutesMatching(cmd) : i <= j
        IN  IF cmd \in DOMAIN router.commandHandlers
            THEN /\ EnterEvents("commandRegex") = {}
                 /\ \A i \in EnterEvents("command") : CommandNames[log[i].r] = cmd
                 /\ ~IsAborted(lastC) =>
                       Cardinality(EnterEvents("command")) = Len(router.commandHandlers[cmd])
            ELSE /\ EnterEvents("command") = {}
                 /\ RegexRoutesMatching(cmd) = {} => EnterEvents("commandRegex") = {}
                 /\ RegexRoutesMatching(cmd) # {} =>
                       /\ \A i \in EnterEvents("commandRegex") : log[i].r = first
                       /\ ~IsAborted(lastC) =>
                             Cardinality(EnterEvents("commandRegex")) =
                                 Len(router.commandRegexRoutes[first].handlers)

\* /stop ran the first of two matching regex routes while handlers exist
\* under an exact name.
C20_Witness ==
    /\ MsgHas(lastU, "IsCommand")
    /\ lastU.command = "stop"
    /\ Cardinality(RegexRoutesMatching("stop")) >= 2
    /\ EnterEvents("commandRegex") # {}
    /\ DOMAIN router.commandHandlers # {}

\* ------------------------------------------------------ unmatched commands
\* The command registrations and updates, with text handlers besides.
NextFallthrough ==
    \/ NextCommand
    \/ \E hs \in HandlerArgs("text", 0, Len(router.handlers["text"]), 1, LastScripts) :
          Text(hs)

SpecFallthrough == InitDispatch /\ [][NextFallthrough]_vars

\* The latest dispatch was of a command with no exact entry and no regex
\* route that matches it.
Unmatched ==
    /\ MsgHas(lastU, "IsCommand")
    /\ lastU.command \notin DOMAIN router.commandHandlers
    /\ RegexRoutesMatching(lastU.command) = {}

\* C21: a command with no exact entry and no matching regex route enters no
\* command handler and ends without a panic; the text handlers, and nothing
\* else, run for it, all of them unless one aborts, so with none registered
\* nothing runs at all.
C21_UnmatchedFallsThrough ==
    Unmatched =>
        /\ EnterEvents("command") = {} /\ EnterEvents("commandRegex") = {}
        /\ ~Panicking(lastC) /\ ~crashed
        /\ \A i \in 1..Len(lastC.log) : lastC.log[i].cat = "text"
        /\ ~IsAborted(lastC) =>
              Cardinality(EnterEvents("text")) = Len(router.handlers["text"])
        /\ router.handlers["text"] = <<>> => lastC.log = <<>>

\* /help fell through to a text handler past an exact entry and a regex
\* route, neither of them for it.
C21_Witness ==
    /\ Unmatched
    /\ lastU.command = "help"
    /\ DOMAIN router.commandHandlers # {}
    /\ router.commandRegexRoutes # <<>>
    /\ EnterEvents("text") # {}

\* ------------------------------------------------------ top-level categories
\* The top-level category of the table a handler was registered in: the
\* layers of the poll stage are one category, and so are those of the
\* command, callback and location stages.
TopCategory(cat) ==
    CASE cat \in {"pollType", "quiz", "regularPoll", "poll"} -> "poll"
      [] cat \in {"command", "commandRegex"} -> "command"
      [] cat \in {"callbackRoute", "callback"} -> "callback"
      [] cat \in {"location", "locationInRange", "liveLocation"} -> "location"
      [] OTHER -> cat

\* The top-level categories whose handlers the latest dispatch entered,
\* middleware and OnUpdate handlers aside.
CategoriesRun ==
    { TopCategory(lastC.log[i].cat) :
        i \in { j \in 1..Len(lastC.log) :
                  /\ lastC.log[j].ev = "enter"
                  /\ lastC.log[j].cat \notin {"mw", "update"} } }

\* C22: the handlers a dispatch runs, OnUpdate handlers aside, are all of one
\* top-level category.
C22_OneCategory == Cardinality(CategoriesRun) <= 1

\* ------------------------------------------------------------------ OnUpdate
\* Event i of the latest dispatch enters a handler of a specific category.
SpecificEnter(i) ==
    lastC.log[i].ev = "enter" /\ lastC.log[i].cat \notin {"mw", "update"}

\* The functions registered with OnUpdate, over all its calls.
UpdateFunctions ==
    { <<r, n>> \in (1..Len(router.updateHandlers)) \X (1..MaxHandlers) :
        n <= Len(router.updateHandlers[r].hs) }

\* C23: in a dispatch every OnUpdate handler that is entered is entered
\* before any handler of a specific category; all of them are entered unless
\* the context is aborted; and after an abort that comes before any specific
\* handler (by an OnUpdate handler or a middleware of its chain) no specific
\* handler is entered.
C23_UpdateHandlersFirst ==
    LET log == lastC.log IN
    lastU # BlankUpdate =>
        /\ \A i, j \in 1..Len(log) :
              (i < j /\ SpecificEnter(i)) => ~(log[j].ev = "enter" /\ log[j].cat = "update")
        /\ ~IsAborted(lastC) =>
              Cardinality(EnterEvents("update")) = Cardinality(UpdateFunctions)
        /\ \A i \in 1..Len(log) :
              (log[i].ev = "abort" /\ \A j \in 1..(i - 1) : ~SpecificEnter(j)) =>
                  \A j \in 1..Len(log) : ~SpecificEnter(j)

\* An OnUpdate handler aborted a text message for which a text handler is
\* registered, behind a middleware.
C23_Witness ==
    /\ MsgHas(lastU, "Text")
    /\ router.handlers["text"] # <<>>
    /\ router.middlewares # <<>>
    /\ \E i \in 1..Len(lastC.log) :
          lastC.log[i].ev = "abort" /\ lastC.log[i].cat = "update"

\* ------------------------------------------- composition and registration
SpecCompose == InitDispatch /\ [][NextCompose]_vars

\* C24: a dispatch that starts after a registration call has returned reads
\* composed tables that hold that registration, and composedDirty is never
\* false while the composed tables lack a registration whose call returned.
C24_CompletedRegistrationsComposed ==
    /\ \A d \in Dispatchers : disp[d].pc = "done" => ~disp[d].missed
    /\ ~composedDirty => Missing(returned) = {}

\* ------------------------------------------------------ one Context per call
\* Callback queries one after the other, on routes whose handlers may abort
\* and bind a path parameter.
NextIsolation ==
    \/ \E hs \in HandlerArgs("mw", 0, Len(router.middlewares), 1, LastScripts) : Use(hs)
    \/ \E i \in 1..Len(CallbackPatterns) :
          \E hs \in HandlerArgs("callbackRoute", Len(router.callbackRoutes) + 1, 0, 1,
                                RouteScripts) :
              Callback(CallbackPatterns[i], hs)
    \/ \E u \in CallbackUpdates : DispatchAfter(u)

SpecIsolation == InitDispatch /\ [][NextIsolation]_vars

RouteTemplates ==
    << [pattern |-> <<"u", "/", ":", "i">>, names |-> << <<"i">> >>],
       [pattern |-> <<":", "i", "/", ":", "j">>, names |-> << <<"i">>, <<"j">> >>],
       [pattern |-> <<"u", "/", ":", "i", "/", "p">>, names |-> << <<"i">> >>] >>

CaptureValues == {<<>>, <<"1">>, <<"4", "2">>}

\* The parts of a pattern joined by '/', each ':name' part replaced by the
\* next of vals.
RECURSIVE SubstituteParts(_, _)
SubstituteParts(parts, vals) ==
    LET p == Head(parts)
        seg == IF HasColonPrefix(p) THEN Head(vals) ELSE p
        rest == IF HasColonPrefix(p) THEN Tail(vals) ELSE vals
    IN  IF Len(parts) = 1 THEN seg
        ELSE seg \o <<"/">> \o SubstituteParts(Tail(parts), rest)

Substitute(tpl, vals) == SubstituteParts(Split(tpl.pattern, "/"), vals)

RouteUpdates ==
    UNION { { [BlankUpdate EXCEPT !.top = {"CallbackQuery"},
                                  !.data = Substitute(tpl, vals)] :
                vals \in [1..Len(tpl.names) -> CaptureValues] } :
            tpl \in Elements(RouteTemplates) }

NextRoute ==
    \/ \E i \in 1..Len(RouteTemplates) :
          \E hs \in HandlerArgs("callbackRoute", Len(router.callbackRoutes) + 1, 0, 1,
                                LastScripts) :
              Callback(RouteTemplates[i].pattern, hs)
    \/ \E u \in RouteUpdates : DispatchUpdate(u)

SpecRoute == InitDispatch /\ [][NextRoute]_vars

\* The template a registered route was made from.
TemplateOf(route) ==
    CHOOSE tpl \in Elements(RouteTemplates) : tpl.pattern = route.pattern

\* The table that binds each name of tpl to the value substituted for it.
Bound(tpl, vals) ==
    [name \in Elements(tpl.names) |->
        vals[CHOOSE k \in 1..Len(tpl.names) : tpl.names[k] = name]]

\* For the subject of the latest callback query and every registered route
\* whose pattern yields that subject by substituting values drawn from V:
\* the route's expression matches the subject and binds each name to the
\* value substituted for it; the route's handler is entered unless the
\* dispatch was aborted; and the context of the call holds these bindings
\* when the route is the last one registered.
SubstitutionMatches(V) ==
    "CallbackQuery" \in lastU.top =>
        \A r \in 1..Len(router.callbackRoutes) :
            LET route == router.callbackRoutes[r]
                tpl == TemplateOf(route)
            IN  \A vals \in [1..Len(tpl.names) -> V] :
                    lastU.data = Substitute(tpl, vals) =>
                        /\ FindStringSubmatch(route.regex, lastU.data).ok
                        /\ BindParams(route.params,
                                      FindStringSubmatch(route.regex, lastU.data).groups,
                                      1, EmptyMap) = Bound(tpl, vals)
                        /\ ~IsAborted(lastC) => r \in Elements(RoutesEntered)
                        /\ (r = Len(router.callbackRoutes) /\ r \in Elements(RoutesEntered)) =>
                              lastC.params = Bound(tpl, vals)

ProfilePattern == <<"u", "/", ":", "i", "/", "p">>
UserPattern == <<"u", "/", ":", "i">>

QueryPatterns == <<ProfilePattern, UserPattern>>

ProfilePath == <<"u", "/", "4", "2", "/", "p">>
UserPath == <<"u", "/", "4", "2">>

QueryStrings ==
    { <<"t", "=", "s">>,
      <<"t", "=", "s", "&", "k", "=", "v">>,
      <<"t", "=", "s", "?", "x">>,
      <<>> }

QueryUpdates ==
    { [BlankUpdate EXCEPT !.top = {"CallbackQuery"}, !.data = path] :
        path \in {ProfilePath, UserPath} }
    \cup
    { [BlankUpdate EXCEPT !.top = {"CallbackQuery"}, !.data = path \o <<"?">> \o q] :
        path \in {ProfilePath, UserPath}, q \in QueryStrings }

NextQuery ==
    \/ \E i \in 1..Len(QueryPatterns) :
          \E hs \in HandlerArgs("callbackRoute", Len(router.callbackRoutes) + 1, 0, 1,
                                LastScripts) :
              Callback(QueryPatterns[i], hs)
    \/ \E u \in QueryUpdates : DispatchUpdate(u)

SpecQuery == InitDispatch /\ [][NextQuery]_vars

\* The registered routes with this pattern, in registration order.
RoutesOf(pattern) ==
    SelectSeq([i \in 1..Len(router.callbackRoutes) |-> i],
              LAMBDA i : router.callbackRoutes[i].pattern = pattern)

\* The query table written out for each of the query strings.
QueryTable(q) ==
    CASE q = <<"t", "=", "s">> -> MapPut(EmptyMap, <<"t">>, <<"s">>)
      [] q = <<"t", "=", "s", "&", "k", "=", "v">> ->
             MapPut(MapPut(EmptyMap, <<"t">>, <<"s">>), <<"k">>, <<"v">>)
      [] q = <<"t", "=", "s", "?", "x">> -> MapPut(EmptyMap, <<"t">>, <<"s", "?", "x">>)
      [] OTHER -> EmptyMap

\* C27: for callback data with a '?', the routes are matched against the
\* part before the first '?' only and the part after it fills the query
\* table: the data path?q fills the query table with the pairs of q, runs
\* the routes registered for the pattern of the path, in order and no other
\* route, all of them unless the dispatch was aborted, and binds i to 42 when
\* one of them ran.
C27_QueryIsSplitOff ==
    \A path \in {ProfilePath, UserPath}, q \in QueryStrings :
        ("CallbackQuery" \in lastU.top /\ lastU.data = path \o <<"?">> \o q) =>
            LET m == RoutesOf(IF path = ProfilePath THEN ProfilePattern ELSE UserPattern)
                e == RoutesEntered
            IN  /\ lastC.query = QueryTable(q)
                /\ Len(e) <= Len(m)
                /\ \A i \in 1..Len(e) : e[i] = m[i]
                /\ ~IsAborted(lastC) => Len(e) = Len(m)
                /\ Len(e) > 0 => lastC.params = MapPut(EmptyMap, <<"i">>, <<"4", "2">>)

\* The data u/42/p?t=s ran the route u/:i/p, registered next to u/:i, with
\* i = 42 and t = s.
C27_Witness ==
    /\ lastU.data = ProfilePath \o <<"?", "t", "=", "s">>
    /\ Len(RoutesOf(UserPattern)) > 0
    /\ Len(RoutesEntered) > 0
    /\ \A i \in 1..Len(RoutesEntered) :
          router.callbackRoutes[RoutesEntered[i]].pattern = ProfilePattern
    /\ lastC.params = MapPut(EmptyMap, <<"i">>, <<"4", "2">>)
    /\ lastC.query = MapPut(EmptyMap, <<"t">>, <<"s">>)

\* ------------------------------------------- malformed percent-encoding
\* Query strings with a '%' that is not followed by two hexadecimal digits,
\* in a value (k=%), in a key (%x=v) and next to a well-formed pair
\* (k=%&t=s); a well-formed escape (k=%41); and a key given twice (k=a&k=b).
MalformedQueries ==
    { <<"k", "=", "%">>,
      <<"%", "x", "=", "v">>,
      <<"k", "=", "%", "&", "t", "=", "s">>,
      <<"k", "=", "%", "4", "1">>,
      <<"k", "=", "a", "&", "k", "=", "b">> }

MalformedUpdates ==
    { [BlankUpdate EXCEPT !.top = {"CallbackQuery"}, !.data = path \o <<"?">> \o q] :
        path \in {ProfilePath, UserPath}, q \in MalformedQueries }

NextMalformed ==
    \/ \E i \in 1..Len(QueryPatterns) :
          \E hs \in HandlerArgs("callbackRoute", Len(router.callbackRoutes) + 1, 0, 1,
                                LastScripts) :
              Callback(QueryPatterns[i], hs)
    \/ \E u \in MalformedUpdates : DispatchUpdate(u)

SpecMalformed == InitDispatch /\ [][NextMalformed]_vars

\* The query table of each of these query strings when a malformed key or
\* value stands for itself, unchanged.
RawKeptTable(q) ==
    CASE q = <<"k", "=", "%">> -> MapPut(EmptyMap, <<"k">>, <<"%">>)
      [] q = <<"%", "x", "=", "v">> -> MapPut(EmptyMap, <<"%", "x">>, <<"v">>)
      [] q = <<"k", "=", "%", "&", "t", "=", "s">> ->
             MapPut(MapPut(EmptyMap, <<"k">>, <<"%">>), <<"t">>, <<"s">>)
      [] q = <<"k", "=", "%", "4", "1">> -> MapPut(EmptyMap, <<"k">>, <<"A">>)
      [] q = <<"k", "=", "a", "&", "k", "=", "b">> -> MapPut(EmptyMap, <<"k">>, <<"b">>)
      [] OTHER -> EmptyMap

\* C28: a key or value with malformed percent-encoding is kept in the query
\* table as the raw segment, the other pairs are decoded as usual, and of
\* two pairs with the same key the last one wins.
C28_MalformedKeptRaw ==
    \A path \in {ProfilePath, UserPath}, q \in MalformedQueries :
        ("CallbackQuery" \in lastU.top /\ lastU.data = path \o <<"?">> \o q) =>
            lastC.query = RawKeptTable(q)

\* ------------------------------------------------------- poll predicate keys
\* Keys that differ in the type name (quiz, regular, none), the minimum vote
\* count, the anonymity flag and the multiple-choice flag, and polls that
\* differ in the same four fields.
PredicateKeys ==
    << [Type |-> "quiz", MinVotes |-> 0, IsAnonymous |-> FALSE, AllowMultiple |-> FALSE],
       [Type |-> "", MinVotes |-> 0, IsAnonymous |-> FALSE, AllowMultiple |-> TRUE],
       [Type |-> "regular", MinVotes |-> 3, IsAnonymous |-> FALSE, AllowMultiple |-> TRUE],
       [Type |-> "regular", MinVotes |-> 2, IsAnonymous |-> TRUE, AllowMultiple |-> FALSE],
       [Type |-> "quiz", MinVotes |-> 2, IsAnonymous |-> TRUE, AllowMultiple |-> TRUE],
       [Type |-> "regular", MinVotes |-> 1, IsAnonymous |-> FALSE, AllowMultiple |-> FALSE] >>

PredicatePolls ==
    { [Type |-> "quiz", TotalVoterCount |-> 0, IsAnonymous |-> FALSE,
       AllowsMultipleAnswers |-> FALSE],
      [Type |-> "regular", TotalVoterCount |-> 2, IsAnonymous |-> FALSE,
       AllowsMultipleAnswers |-> TRUE],
      [Type |-> "regular", TotalVoterCount |-> 2, IsAnonymous |-> TRUE,
       AllowsMultipleAnswers |-> FALSE],
      [Type |-> "quiz", TotalVoterCount |-> 3, IsAnonymous |-> TRUE,
       AllowsMultipleAnswers |-> FALSE],
      [Type |-> "regular", TotalVoterCount |-> 3, IsAnonymous |-> FALSE,
       AllowsMultipleAnswers |-> FALSE] }

PredicateUpdates ==
    { [BlankUpdate EXCEPT !.top = {"Poll"}, !.poll = poll] : poll \in PredicatePolls }

NextPredicate ==
    \/ \E i \in 1..Len(PredicateKeys) :
          \E hs \in HandlerArgs("pollType", i,
                                IF PredicateKeys[i] \in DOMAIN router.pollTypeHandlers
                                THEN Len(router.pollTypeHandlers[PredicateKeys[i]])
                                ELSE 0, 1, LastScripts) :
              PollWithType(PredicateKeys[i], hs)
    \/ \E u \in PredicateUpdates : DispatchUpdate(u)

SpecPredicate == InitDispatch /\ [][NextPredicate]_vars

\* The predicate in words: the type name matches (an empty type name in the
\* key matches every poll when anyType is set), the votes reach the minimum,
\* the anonymity flags are equal, and for a regular poll the multiple-choice
\* flags are equal.
KeyHolds(poll, key, anyType) ==
    /\ poll.Type = key.Type \/ (anyType /\ key.Type = "")
    /\ poll.TotalVoterCount >= key.MinVotes
    /\ poll.IsAnonymous = key.IsAnonymous
    /\ poll.Type = "regular" => poll.AllowsMultipleAnswers = key.AllowMultiple

\* For a poll update: every handler entered under a predicate key belongs
\* to a key that holds, and every handler registered under a key that holds
\* is entered unless the dispatch was aborted.
HoldingKeysRun(anyType) ==
    "Poll" \in lastU.top =>
        /\ \A i \in EnterEvents("pollType") :
              KeyHolds(lastU.poll, PredicateKeys[lastC.log[i].r], anyType)
        /\ ~IsAborted(lastC) =>
              \A k \in 1..Len(PredicateKeys) :
                  (PredicateKeys[k] \in DOMAIN router.pollTypeHandlers
                     /\ KeyHolds(lastU.poll, PredicateKeys[k], anyType)) =>
                      \A n \in 1..Len(router.pollTypeHandlers[PredicateKeys[k]]) :
                          \E i \in EnterEvents("pollType") :
                              lastC.log[i].r = k /\ lastC.log[i].n = n

\* C29 as stated: a key matches exactly when the type names are equal, the
\* votes reach the minimum, the anonymity flags are equal and, for a regular
\* poll, the multiple-choice flags are equal.
C29_KeyMatchesByTypeName == HoldingKeysRun(FALSE)

\* C29: a PollWithType key matches a poll exactly when its type name is
\* empty or equal to the poll's, the poll's votes reach the key's minimum,
\* the anonymity flags are equal and, for a regular poll only, the
\* multiple-choice flags are equal; the handlers of every matching key run
\* and no handler of another key runs.
C29_KeyMatchesByTypeNameOrNone == HoldingKeysRun(TRUE)

\* A quiz poll ran the handlers of a key that holds although its
\* multiple-choice flag differs, and of no other key, while keys with
\* another type, too high a minimum and another anonymity flag were there.
C29_Witness ==
    /\ "Poll" \in lastU.top
    /\ lastU.poll.Type = "quiz" /\ lastU.poll.TotalVoterCount = 3
    /\ DOMAIN router.pollTypeHandlers =
          {PredicateKeys[1], PredicateKeys[4], PredicateKeys[5]}
    /\ \A i \in EnterEvents("pollType") : lastC.log[i].r = 5
    /\ EnterEvents("pollType") # {}

\* ------------------------------------------------------ composing twice
\* The router as a HandleUpdate call sees it whose tests of composedDirty
\* were made before the rebuild of another call cleared the flag: the call
\* rebuilds the composed tables again.
SawDirty(t) == [t EXCEPT !.composedDirty = TRUE]

\* A HandleUpdate call that rebuilds tables which are already composed,
\* with the context the call before it left kept for comparison.
DispatchRecomposed(u) ==
    /\ ~crashed
    /\ ~router.composedDirty
    /\ \E ord \in Orders(composeHandlers(SawDirty(router))) :
        \E res \in {HandleUpdate(SawDirty(router), u, ord)} :
        /\ router' = res.t
        /\ lastU' = u
        /\ lastC' = res.c
        /\ crashed' = Panicking(res.c)
        /\ prevC' = lastC
        /\ UNCHANGED <<nReg, listenVars, panics, composeVars>>

\* Registrations; the first call after a registration composes the tables,
\* and every call after it composes them again.
NextRecompose ==
    \/ \E hs \in HandlerArgs("mw", 0, Len(router.middlewares), 1, Scripts) : Use(hs)
    \/ \E hs \in HandlerArgs("newChatTitle", 0, Len(router.handlers["newChatTitle"]), 1,
                             LastScripts) : OnNewChatTitle(hs)
    \/ \E hs \in HandlerArgs("text", 0, Len(router.handlers["text"]), 1, LastScripts) :
          Text(hs)
    \/ \E i \in 1..Len(Patterns) :
          \E hs \in HandlerArgs("callbackRoute", Len(router.callbackRoutes) + 1, 0, 2,
                                RouteScripts) :
              Callback(Patterns[i], hs)
    \/ \E i \in 1..Len(PollTypes) :
          \E hs \in HandlerArgs("pollType", i,
                                IF PollTypes[i] \in DOMAIN router.pollTypeHandlers
                                THEN Len(router.pollTypeHandlers[PollTypes[i]])
                                ELSE 0, 1, LastScripts) :
              PollWithType(PollTypes[i], hs)
    \/ \E u \in Updates : router.composedDirty /\ DispatchAfter(u)
    \/ \E u \in Updates : DispatchRecomposed(u)

SpecRecompose == InitDispatch /\ [][NextRecompose]_vars

\* C30: composing the tables again with no registration in between changes
\* nothing in what a dispatch does: a call that rebuilt the composed tables
\* runs, for the update of the call before it, the same middleware and
\* handlers in the same order with the same Next() and Abort() calls, and
\* leaves the same context and the same composed tables.
C30_ComposeTwiceSameChains ==
    (lastU # BlankUpdate /\ prevC.Update = lastU) =>
        /\ lastC.log = prevC.log
        /\ lastC = prevC
        /\ composeHandlers(SawDirty(router)) = router

\* A text message ran a middleware and two handlers behind it, on tables
\* composed once and then on tables composed again.
C30_Witness ==
    /\ MsgHas(lastU, "Text")
    /\ prevC.Update = lastU
    /\ ~router.composedDirty
    /\ Len(router.middlewares) > 0
    /\ Len(EnteredOf("text")) = 2
    /\ prevC.log = lastC.log

\* ------------------------------------------ registrations and the lock
\* C31: a registration appends to its table and sets composedDirty only
\* while it holds t.mu: the lock is held whenever a registration is between
\* its append and its return, and no rebuild of the composed tables is under
\* way while a registration is about to append or has appended and not yet
\* set the flag.
C31_RegistrationsHoldLock ==
    /\ \A r \in Registrars : reg[r].pc \in {"append", "dirty", "unlock"} => mu
    /\ \A r \in Registrars, d \in Dispatchers :
          ~(reg[r].pc \in {"append", "dirty"} /\ disp[d].pc \in {"wrap", "range"})

\* ----------------------------------------------- reading the composed tables
\* C32: a dispatch reads the composed tables as a snapshot taken under the
\* lock: no HandleUpdate call reads them while the rebuild of another call
\* is replacing them.
C32_ReadsOutsideRebuild ==
    [][\A d \in Dispatchers :
          UseTables(d) => \A e \in Dispatchers : disp[e].pc \notin {"wrap", "range"}]_vars

\* C33: the composed tables are rebuilt once for an invalidation, also when
\* several HandleUpdate calls find composedDirty set: a rebuild is under way
\* only while the flag is set, never for tables another call has rebuilt
\* and marked clean.
C33_RebuiltOncePerInvalidation ==
    \A d \in Dispatchers : disp[d].pc \in {"wrap", "range"} => composedDirty

\* ------------------------------------------------- Use() during a dispatch
\* HandleUpdate for a text message while another goroutine calls
\* Use(middlewares): the call ranges over the composed text handlers, and
\* the Use() call completes after the k-th of them has returned.  Each
\* composed handler copies t.middlewares when it is invoked.
HandleUpdateDuringUse(t, u, middlewares, k) ==
    LET t1 == IF t.composedDirty THEN composeHandlers(t) ELSE t
        d1 == RunList(t1, SubSeq(t1.handlersC["text"], 1, k),
                      [c |-> [NewContext EXCEPT !.Update = u], done |-> FALSE])
        t2 == [t1 EXCEPT !.middlewares = @ \o middlewares, !.composedDirty = TRUE]
    IN  [t |-> t2,
         c |-> RunList(t2, SubSeq(t1.handlersC["text"], k + 1,
                                  Len(t1.handlersC["text"])), d1).c]

TextMessage == [BlankUpdate EXCEPT !.top = {"Message"}, !.msg = {"Text"}]

DispatchDuringUse(middlewares, k) ==
    /\ ~crashed
    /\ nReg + Len(middlewares) <= MaxHandlers
    /\ k \in 0..Len(router.handlers["text"])
    /\ \E res \in {HandleUpdateDuringUse(router, TextMessage, middlewares, k)} :
        /\ router' = res.t
        /\ nReg' = nReg + Len(middlewares)
        /\ lastU' = TextMessage
        /\ lastC' = res.c
        /\ crashed' = Panicking(res.c)
        /\ UNCHANGED <<listenVars, panics, composeVars, prevC>>

NextUse ==
    \/ \E hs \in HandlerArgs("mw", 0, Len(router.middlewares), 1, LastScripts) : Use(hs)
    \/ \E hs \in HandlerArgs("text", 0, Len(router.handlers["text"]), 2, LastScripts) :
          Text(hs)
    \/ DispatchUpdate(TextMessage)
    \/ \E k \in 0..MaxHandlers :
          \E hs \in HandlerArgs("mw", 0, Len(router.middlewares), 1, LastScripts) :
              DispatchDuringUse(hs, k)

SpecUse == InitDispatch /\ [][NextUse]_vars

\* The middleware entered for the handler entered at position i of the log:
\* those entered since the handler before it was entered.
MiddlewareAround(i) ==
    { lastC.log[m].n : m \in { m \in 1..(i - 1) :
        /\ lastC.log[m].ev = "enter" /\ lastC.log[m].cat = "mw"
        /\ \A j \in (m + 1)..(i - 1) :
              ~(lastC.log[j].ev = "enter" /\ lastC.log[j].cat = "text") } }

\* C34: all handlers run in one dispatch are wrapped by the same middleware
\* list, the one of the time the tables were composed, also when a Use()
\* call completes while the dispatch is in progress.
C34_OneMiddlewareListPerDispatch ==
    MsgHas(lastU, "Text") =>
        \A i, j \in EnterEvents("text") : MiddlewareAround(i) = MiddlewareAround(j)

\* ------------------------------------------------------ the bounded queue
\* ListenWithContext with every kind of queueSize argument: negative, zero
\* and positive.
NextQueue ==
    \/ \E nw \in 1..MaxWorkers, qs \in -1..MaxQueue : ListenStart(nw, qs)
    \/ Cancel
    \/ SourceDeliver
    \/ SourceClose
    \/ DrainCtxExpire
    \/ Producer
    \/ \E w \in Workers : WorkerReceive(w)
    \/ \E w \in Workers : WorkerHandled(w)
    \/ \E w \in Workers : WorkerExit(w)
    \/ MainCloseJobs
    \/ MainReturn

SpecQueue == Init /\ [][NextQueue]_vars

\* jobs holds no more than its capacity, which is the queueSize argument,
\* or defaultQueueSize when the argument is <= 0, and which stays what it
\* was at the start.
CapacityKept ==
    /\ [](mainPc # "idle" => Len(jobs) <= queueSize)
    /\ [][\A nw \in 1..MaxWorkers, qs \in -1..MaxQueue :
             ListenStart(nw, qs) =>
                 queueSize' = IF qs <= 0 THEN defaultQueueSize ELSE qs]_vars
    /\ [][mainPc # "idle" => queueSize' = queueSize]_vars

\* C35 as stated: jobs never exceeds its capacity, and while jobs is full
\* and ctx is not cancelled no update is taken from the source.
C35_NoIntakeWhileFull ==
    /\ CapacityKept
    /\ [][(mainPc # "idle" /\ Len(jobs) >= queueSize /\ ~ctxDone) =>
             Len(updates') >= Len(updates)]_vars

\* C35: jobs never exceeds its capacity; the producer holds at most the one
\* update it is sending, and while jobs is full and ctx is not cancelled it
\* keeps that update and takes no other from the source.
C35_QueueBounded ==
    /\ CapacityKept
    /\ [](pu # 0 => prodPc \in {"enqueue", "drain_enqueue"})
    /\ [][(prodPc = "enqueue" /\ Len(jobs) >= queueSize /\ ~ctxDone) =>
             (pu' = pu /\ prodPc' = prodPc /\ Len(updates') >= Len(updates))]_vars

\* jobs is full and the producer waits with the update it took from the
\* source after jobs became full.
C35_Witness ==
    /\ Len(jobs) = queueSize
    /\ prodPc = "enqueue" /\ pu # 0
    /\ pu \notin enqueued
    /\ ~ctxDone

\* ------------------------------------------------------- at most once
\* Middleware and handlers that return at once, call Next() once, or call
\* it twice; text handlers, and callback routes with up to two handlers.
OnceScripts == {<<>>, <<"next">>, <<"next", "next">>}

OnceUpdates ==
    { TextMessage,
      [BlankUpdate EXCEPT !.top = {"CallbackQuery"}, !.data = <<"a", "/", "1">>] }

NextOnce ==
    \/ \E hs \in HandlerArgs("mw", 0, Len(router.middlewares), 1, OnceScripts) : Use(hs)
    \/ \E hs \in HandlerArgs("text", 0, Len(router.handlers["text"]), 1, OnceScripts) :
          Text(hs)
    \/ \E hs \in HandlerArgs("callbackRoute", Len(router.callbackRoutes) + 1, 0, 2,
                             OnceScripts) : Callback(Patterns[1], hs)
    \/ \E u \in OnceUpdates : DispatchUpdate(u)

SpecOnce == InitDispatch /\ [][NextOnce]_vars

\* The composed chains the latest dispatch invoked: one for each text
\* handler, or one for each callback route (every route matches a/1).
ChainsInvoked ==
    IF MsgHas(lastU, "Text") THEN Len(router.handlers["text"])
    ELSE IF "CallbackQuery" \in lastU.top THEN Len(router.callbackRoutes)
    ELSE 0

\* C36: in one invocation of a composed chain every middleware and every
\* handler runs at most once, whether they call Next() once, twice or not
\* at all, also when a callback route's handler replaces the chain and
\* resets the cursor: in a dispatch no registered handler is entered twice,
\* and no middleware more often than chains were invoked.
C36_AtMostOncePerChain ==
    /\ \A cat \in {"text", "callbackRoute"} :
          \A i, j \in EnterEvents(cat) :
              (lastC.log[i].r = lastC.log[j].r /\ lastC.log[i].n = lastC.log[j].n) => i = j
    /\ \A n \in 1..Len(router.middlewares) :
          Cardinality({ i \in EnterEvents("mw") : lastC.log[i].n = n }) <= ChainsInvoked

\* One callback route with two handlers behind a middleware that calls
\* Next() twice, the first handler calling Next() too: each ran once.
C36_Witness ==
    /\ "CallbackQuery" \in lastU.top
    /\ Len(router.callbackRoutes) = 1
    /\ Len(router.middlewares) = 1
    /\ router.middlewares[1].script = <<"next", "next">>
    /\ Len(router.callbackRoutes[1].handler.hs) = 2
    /\ router.callbackRoutes[1].handler.hs[1].script = <<"next">>
    /\ Cardinality(EnterEvents("mw")) = 1
    /\ Cardinality(EnterEvents("callbackRoute")) = 2

\* ------------------------------------------- a pattern that does not compile
\* regexp.MustCompile panics when the expression does not parse.  Static
\* parts of a pattern go into the expression as they are, so a part with an
\* unmatched parenthesis makes an expression that does not parse.  (Of the
\* syntax errors of regexp/syntax only unmatched parentheses are kept.)
RECURSIVE ParenDepth(_, _)
ParenDepth(tokens, depth) ==
    IF depth < 0 \/ tokens = <<>> THEN depth
    ELSE ParenDepth(Tail(tokens),
                    IF Head(tokens).k # "lit" THEN depth
                    ELSE IF Head(tokens).ch = "(" THEN depth + 1
                    ELSE IF Head(tokens).ch = ")" THEN depth - 1
                    ELSE depth)

MustCompilePanics(pattern) == ParenDepth(compileRoutePattern(pattern), 0) # 0

BadPattern == <<"a", "/", "(">>

CompiledPatterns == {Patterns[1], BadPattern}

CallbackTable == 3

\* Callback(pattern, ...) is called.
CallbackCall(r, pattern) ==
    /\ reg[r].pc = "idle"
    /\ reg' = [reg EXCEPT ![r] = [pc |-> "cb_lock", tab |-> CallbackTable,
                                  pattern |-> pattern]]
    /\ UNCHANGED <<mu, composedDirty, handlersRaw, handlersC, disp, returned>>
    /\ ComposeFrame

\* t.mu.Lock(), with no deferred Unlock.
CallbackLock(r) ==
    /\ reg[r].pc = "cb_lock"
    /\ ~mu
    /\ mu' = TRUE
    /\ reg' = [reg EXCEPT ![r].pc = "compile"]
    /\ UNCHANGED <<composedDirty, handlersRaw, handlersC, disp, returned>>
    /\ ComposeFrame

\* The route literal is evaluated before append is called:
\* regex: compileRoutePattern(pattern).  A panic leaves Callback at once.
CallbackCompile(r) ==
    /\ reg[r].pc = "compile"
    /\ reg' = [reg EXCEPT ![r].pc = IF MustCompilePanics(reg[r].pattern)
                                    THEN "panicked" ELSE "append"]
    /\ UNCHANGED <<mu, composedDirty, handlersRaw, handlersC, disp, returned>>
    /\ ComposeFrame

NextBadPattern ==
    \/ \E r \in Registrars, tab \in 1..Len(ComposedTables) : RegisterCall(r, tab)
    \/ \E r \in Registrars : RegisterLock(r)
    \/ \E r \in Registrars : RegisterAppend(r)
    \/ \E r \in Registrars : RegisterDirty(r)
    \/ \E r \in Registrars : RegisterUnlock(r)
    \/ \E r \in Registrars, pattern \in CompiledPatterns : CallbackCall(r, pattern)
    \/ \E r \in Registrars : CallbackLock(r)
    \/ \E r \in Registrars : CallbackCompile(r)
    \/ \E d \in Dispatchers : HandleUpdateCall(d)
    \/ \E d \in Dispatchers : ComposeEnter(d)
    \/ \E d \in Dispatchers : ComposeLock(d)
    \/ \E d \in Dispatchers : ComposeTable(d)
    \/ \E d \in Dispatchers : ComposeAppend(d)
    \/ \E d \in Dispatchers : ComposeDone(d)
    \/ \E d \in Dispatchers : UseTables(d)

SpecBadPattern == InitDispatch /\ [][NextBadPattern]_vars

\* The goroutines between their t.mu.Lock() and their t.mu.Unlock().
InsideLock ==
    { <<"reg", r>> : r \in { x \in Registrars :
          \/ reg[x].pc = "compile"
          \/ Locks(ComposedTables[reg[x].tab]) /\ reg[x].pc \in {"append", "dirty", "unlock"} } }
    \cup { <<"disp", d>> : d \in { x \in Dispatchers : disp[x].pc \in {"wrap", "range"} } }

\* C37: a Callback call with a pattern that does not compile fails at
\* registration, leaves the callback route list as it was and releases the
\* router's lock: once the call has failed, its route is in no table, and
\* the lock is held only while some other call is inside its locked section.
C37_BadPatternReleasesLock ==
    \A r \in Registrars :
        reg[r].pc = "panicked" =>
            /\ r \notin Elements(handlersRaw[CallbackTable])
            /\ InsideLock = {} => ~mu

\* ------------------------------------------------- every update accounted
\* The updates the producer received from the source channel.
TakenFromSource == { u \in Delivered : \A i \in 1..Len(updates) : updates[i] # u }

\* The updates with a "drop update during shutdown" or "enqueue canceled"
\* line in the log.
LoggedDropped == { d.id : d \in dropLog }

NextAround ==
    \/ \E hs \in HandlerArgs("mw", 0, Len(router.middlewares), 1, RouteScripts) : Use(hs)
    \/ \E hs \in HandlerArgs("text", 0, Len(router.handlers["text"]), 1, RouteScripts) :
          Text(hs)
    \/ \E hs \in HandlerArgs("callbackRoute", Len(router.callbackRoutes) + 1, 0, 2,
                             RouteScripts) : Callback(Patterns[1], hs)
    \/ \E hs \in HandlerArgs("update", Len(router.updateHandlers) + 1, 0, 2, RouteScripts) :
          OnUpdate(hs)
    \/ \E u \in OnceUpdates : DispatchUpdate(u)

SpecAround == InitDispatch /\ [][NextAround]_vars

EnteredHandler(cat, r, n) ==
    \E i \in EnterEvents(cat) : lastC.log[i].r = r /\ lastC.log[i].n = n

\* Every handler registered for the dispatched update ran: the handlers of
\* every OnUpdate call, and the text handlers or the handlers of every
\* callback route.
AllHandlersRan ==
    /\ lastU \in OnceUpdates
    /\ \A r \in 1..Len(router.updateHandlers) :
          \A n \in 1..Len(router.updateHandlers[r].hs) : EnteredHandler("update", r, n)
    /\ MsgHas(lastU, "Text") =>
          \A n \in 1..Len(router.handlers["text"]) : EnteredHandler("text", 0, n)
    /\ "CallbackQuery" \in lastU.top =>
          \A r \in 1..Len(router.callbackRoutes) :
              \A n \in 1..Len(router.callbackRoutes[r].handler.hs) :
                  EnteredHandler("callbackRoute", r, n)

\* C39: when the k handlers of a category all run in one dispatch, each
\* global middleware is entered k times, once around each handler; around
\* the handlers given to one Callback call or one OnUpdate call it is
\* entered once for the whole list.  So in a dispatch in which every handler
\* ran, each middleware is entered once for every text handler or callback
\* route and once for every OnUpdate call, whatever the length of the lists.
C39_MiddlewareOncePerWrapper ==
    AllHandlersRan =>
        \A n \in 1..Len(router.middlewares) :
            Cardinality({ i \in EnterEvents("mw") : lastC.log[i].n = n })
                = Len(router.updateHandlers) + ChainsInvoked

\* Two text handlers registered with Text ran behind one middleware, which
\* was entered twice.
C39_Witness ==
    /\ AllHandlersRan
    /\ MsgHas(lastU, "Text")
    /\ Len(router.handlers["text"]) = 2
    /\ Len(router.middlewares) = 1
    /\ Cardinality(EnterEvents("mw")) = 2

\* A list of two handlers given to one Callback call ran behind one
\* middleware, which was entered once.
CallbackListEnteredOnce ==
    /\ AllHandlersRan
    /\ "CallbackQuery" \in lastU.top
    /\ Len(router.callbackRoutes) = 1
    /\ Len(router.callbackRoutes[1].handler.hs) = 2
    /\ Len(router.middlewares) = 1
    /\ Cardinality(EnterEvents("mw")) = 1

\* ------------------------------------------------------- closing the queue
\* close(jobs) ran at most once, only after the producer returned with no
\* update in its hand, and ran before ListenWithContext returned.
ClosedOnceAfterProducer ==
    /\ jobsClosed <= 1
    /\ jobsClosed > 0 => prodPc = "exited" /\ pu = 0
    /\ mainPc = "returned" => jobsClosed = 1

\* A send on jobs.
SendOnJobs == Len(jobs') > Len(jobs)

\* C40: the ingestion queue is closed exactly once and only after the
\* producer has exited, so no send is made on the closed queue, however
\* cancellation, the closing of the source and the drain timeouts interleave.
C40_ClosedOnceAfterProducerExit ==
    /\ []ClosedOnceAfterProducer
    /\ [][SendOnJobs => jobsClosed = 0]_vars

\* The queue was closed after a cancelled producer, which had enqueued an
\* update, left its drain loop on the drain timeout.
C40_Witness ==
    /\ jobsClosed = 1
    /\ ctxDone
    /\ prodExit = "drain_timeout"
    /\ enqueued # {}

====
